---- MODULE Spec2Model ----
(***************************************************************************)
(* A model of the terrain point-cloud core of tmcad: PointCloud            *)
(* (point3d.py), TerrainManager (terrain_storage.py) and TerrainModel      *)
(* (terrain_model.py).  Objects are record values, methods are operators   *)
(* returning the object after the call together with what was raised or    *)
(* returned; one action per public method.                                 *)
(***************************************************************************)
EXTENDS Integers, Sequences, FiniteSets, TLC

VARIABLES
    cloud,      \* the PointCloud: used directly, a manager's point_cloud, a model's points
    kdtree,     \* TerrainManager.kdtree
    model,      \* the TerrainModel's own fields
    result,     \* the last call: its name, arguments, and what it raised or returned
    inserted,   \* history: the points whose insertion succeeded
    database,   \* the Database: its files and its terrain cache
    precision,  \* TerrainManager.precision
    hdf5,       \* the HDF5 file: <<>> while absent, else <<its contents>>
    analyzer,   \* the TerrainAnalyzer: <<>> while none is built, else <<it>>
    lru_cache   \* the memo of FibonacciCalculator.calculate, oldest entry first

vars == <<cloud, kdtree, model, result, inserted, database, precision, hdf5, analyzer, lru_cache>>

(***************************************************************************)
(* Bounds and inputs.                                                      *)
(***************************************************************************)
\* Largest number of points a store is grown to.
MaxPoints == 3

\* Largest k asked of a nearest-neighbour query.
MaxK == 2

Pt(i, x, y, z) == [id |-> i, x |-> x, y |-> y, z |-> z]

\* The points callers insert: ids that equal insertion positions and ids
\* that do not, and one id (1) offered with two different coordinates.
PointPool ==
    { Pt(0, 0, 0, 0), Pt(1, 4, 0, 2), Pt(1, 0, 4, 4),
      Pt(2, 0, 4, 3), Pt(5, 2, 2, 1) }

PointIds == { p.id : p \in PointPool }

\* Ids asked of get_point: pool ids and one that is never stored.
QueryIds == {0, 1, 5, 9}

(***************************************************************************)
(* Python values.                                                          *)
(***************************************************************************)
None == [built |-> FALSE, points |-> <<>>, simplices |-> {}, break_lines |-> <<>>]

\* A dict is the sequence of its <<key, value>> items in insertion order.
DictHas(d, k) == \E i \in 1..Len(d) : d[i][1] = k

DictGet(d, k) == d[CHOOSE i \in 1..Len(d) : d[i][1] = k][2]

DictSet(d, k, v) ==
    IF DictHas(d, k)
    THEN [i \in 1..Len(d) |-> IF d[i][1] = k THEN <<k, v>> ELSE d[i]]
    ELSE Append(d, <<k, v>>)

DictKeys(d) == [i \in 1..Len(d) |-> d[i][1]]

\* d.pop(k, None): the other entries, in their order.
DictPop(d, k) == SelectSeq(d, LAMBDA e : e[1] # k)

(***************************************************************************)
(* numpy / scipy values.  Coordinates are integers; a float result is the  *)
(* exact fraction <<numerator, denominator>> in lowest terms.              *)
(***************************************************************************)
GCD[a \in Nat, b \in Nat] == IF b = 0 THEN a ELSE GCD[b, a % b]

Abs(a) == IF a < 0 THEN -a ELSE a

Frac(n, d) ==
    LET g == GCD[Abs(n), Abs(d)]
        s == IF d < 0 THEN -1 ELSE 1
    IN <<(s * n) \div g, (s * d) \div g>>

FracLess(a, b) == a[1] * b[2] < b[1] * a[2]

\* np.array(coords).reshape(-1, 3): row i (0-based) is Row(a, i).
reshape3(coords) ==
    [i \in 1..(Len(coords) \div 3) |->
        <<coords[3 * i - 2], coords[3 * i - 1], coords[3 * i]>>]

Row(a, i) == a[i + 1]

\* points[:, :2]
xy_columns(a) == [i \in 1..Len(a) |-> <<a[i][1], a[i][2]>>]

Dist2(p, q) ==
    IF Len(q) = 2
    THEN (p[1] - q[1]) * (p[1] - q[1]) + (p[2] - q[2]) * (p[2] - q[2])
    ELSE (p[1] - q[1]) * (p[1] - q[1]) + (p[2] - q[2]) * (p[2] - q[2])
           + (p[3] - q[3]) * (p[3] - q[3])

\* Twice the signed area of the triangle a, b, c in the (x, y) plane.
Orient(a, b, c) == (b[1] - a[1]) * (c[2] - a[2]) - (b[2] - a[2]) * (c[1] - a[1])

\* d lies strictly inside the circle through a, b, c.
InCircle(a, b, c, d) ==
    LET ax == a[1] - d[1]  ay == a[2] - d[2]
        bx == b[1] - d[1]  by == b[2] - d[2]
        cx == c[1] - d[1]  cy == c[2] - d[2]
        det == (ax * ax + ay * ay) * (bx * cy - cx * by)
             - (bx * bx + by * by) * (ax * cy - cx * ay)
             + (cx * cx + cy * cy) * (ax * by - bx * ay)
    IN IF Orient(a, b, c) > 0 THEN det > 0 ELSE det < 0

\* The order of a simplex's three vertex indices (0-based).
Vertices(t) == CHOOSE s \in [1..3 -> t] : s[1] < s[2] /\ s[2] < s[3]

\* scipy.spatial.Delaunay(points): every triangulation Qhull may return.
\* Of several input points with the same coordinates one is a vertex and
\* the others are left out; fewer than three points, or points all on one
\* line, raise QhullError (the empty set here).
Delaunay(points) ==
    LET n == Len(points)
        Reps == { R \in SUBSET (0..(n - 1)) :
                    \A i \in 0..(n - 1) :
                        Cardinality({ j \in R : Row(points, j) = Row(points, i) }) = 1 }
        Simplices(R) ==
            { t \in SUBSET R :
                /\ Cardinality(t) = 3
                /\ LET v == Vertices(t)
                   IN /\ Orient(Row(points, v[1]), Row(points, v[2]), Row(points, v[3])) # 0
                      /\ \A d \in R \ t :
                            ~InCircle(Row(points, v[1]), Row(points, v[2]),
                                      Row(points, v[3]), Row(points, d)) }
    IN { [built |-> TRUE, points |-> points, simplices |-> Simplices(R),
          break_lines |-> <<>>] : R \in { Q \in Reps : Simplices(Q) # {} } }

RECURSIVE NearestFirst(_, _, _)
\* The orders in which m of the rows in rest come out by ascending distance.
NearestFirst(dist, rest, m) ==
    IF m = 0 \/ rest = {} THEN { <<>> }
    ELSE UNION { { <<i>> \o s : s \in NearestFirst(dist, rest \ {i}, m - 1) } :
                 i \in { j \in rest : \A r \in rest : dist[j] <= dist[r] } }

\* cKDTree.query(x, k) over the rows of data: the 0-based indices of the k
\* nearest rows in ascending distance (ties in any order); a neighbour
\* that does not exist is reported as index n.
cKDTree_query(data, x, k) ==
    LET n == Len(data)
        dist == [i \in 0..(n - 1) |-> Dist2(Row(data, i), x)]
    IN { [i \in 1..k |-> IF i <= Len(s) THEN s[i] ELSE n] :
         s \in NearestFirst(dist, 0..(n - 1), k) }

\* cKDTree.query_ball_point(x, r): the indices of the rows within distance
\* r, in the order the tree is walked (any order).
cKDTree_query_ball_point(data, x, r) ==
    LET hit == { i \in 0..(Len(data) - 1) : Dist2(Row(data, i), x) <= r * r }
    IN { s \in [1..Cardinality(hit) -> hit] :
           \A i, j \in 1..Cardinality(hit) : i # j => s[i] # s[j] }

(***************************************************************************)
(* PointCloud (point3d.py).                                                *)
(***************************************************************************)
PointCloud_init ==
    [ _id_to_index |-> <<>>, _coords |-> <<>>, _kdtree |-> None,
      _triangulation |-> None, _break_lines |-> <<>> ]

Returned(obj, value) == [obj |-> obj, raised |-> "None", value |-> value]

Raised(obj, error) == [obj |-> obj, raised |-> error, value |-> <<>>]

\* add_point without the duplicate-id check.
add_point_unchecked(pc, point) ==
    Returned([pc EXCEPT
                 !._id_to_index = DictSet(@, point.id, Len(pc._id_to_index)),
                 !._coords = @ \o <<point.x, point.y, point.z>>,
                 !._kdtree = None,
                 !._triangulation = None], <<>>)

\* add_point that rejects a stored id only after writing the new
\* coordinates over the stored ones.
add_point_overwriting(pc, point) ==
    IF DictHas(pc._id_to_index, point.id)
    THEN LET base_idx == DictGet(pc._id_to_index, point.id) * 3
         IN Raised([pc EXCEPT !._coords =
                        [i \in 1..Len(@) |->
                            IF i = base_idx + 1 THEN point.x
                            ELSE IF i = base_idx + 2 THEN point.y
                            ELSE IF i = base_idx + 3 THEN point.z
                            ELSE @[i]]], "ValueError(duplicate id)")
    ELSE Returned([pc EXCEPT
                      !._id_to_index = DictSet(@, point.id, Len(pc._id_to_index)),
                      !._coords = @ \o <<point.x, point.y, point.z>>,
                      !._kdtree = None,
                      !._triangulation = None], <<>>)

add_point(pc, point) ==
    IF DictHas(pc._id_to_index, point.id)
    THEN Raised(pc, "ValueError(duplicate id)")
    ELSE LET idx == Len(pc._id_to_index)
         IN Returned([pc EXCEPT
                         !._id_to_index = DictSet(@, point.id, idx),
                         !._coords = @ \o <<point.x, point.y, point.z>>,
                         !._kdtree = None,
                         !._triangulation = None], <<>>)

\* get_point reading the coordinates of the slot before the indexed one.
get_point_shifted(pc, point_id) ==
    IF ~DictHas(pc._id_to_index, point_id)
    THEN Raised(pc, "KeyError")
    ELSE LET base_idx == (DictGet(pc._id_to_index, point_id) * 3) - 3
         IN IF base_idx < 0 \/ base_idx + 3 > Len(pc._coords)
            THEN Raised(pc, "IndexError")
            ELSE Returned(pc, Pt(point_id, pc._coords[base_idx + 1],
                                 pc._coords[base_idx + 2], pc._coords[base_idx + 3]))

get_point(pc, point_id) ==
    IF ~DictHas(pc._id_to_index, point_id)
    THEN Raised(pc, "KeyError")
    ELSE LET idx == DictGet(pc._id_to_index, point_id)
             base_idx == idx * 3
         IN IF base_idx + 3 > Len(pc._coords)
            THEN Raised(pc, "IndexError")
            ELSE Returned(pc, Pt(point_id, pc._coords[base_idx + 1],
                                 pc._coords[base_idx + 2], pc._coords[base_idx + 3]))

\* cKDTree(data), and an ndarray kept in a cache field.
cKDTree(data) == [built |-> TRUE, points |-> data, simplices |-> {}, break_lines |-> <<>>]

ndarray(rows) == [built |-> TRUE, points |-> rows, simplices |-> {}, break_lines |-> <<>>]

\* break_lines that keeps the cached triangulation.
break_lines_keep_mesh(pc, line_points) ==
    LET bad == { i \in 1..Len(line_points) :
                   \/ ~DictHas(pc._id_to_index, line_points[i][1])
                   \/ ~DictHas(pc._id_to_index, line_points[i][2])
                   \/ line_points[i][1] = line_points[i][2] }
    IN IF bad # {}
       THEN Raised(pc, "KeyError")
       ELSE Returned([pc EXCEPT !._break_lines = line_points], <<>>)

\* break_lines that stores each pair as it passes validation.
break_lines_pairwise(pc, line_points) ==
    LET bad == { i \in 1..Len(line_points) :
                   \/ ~DictHas(pc._id_to_index, line_points[i][1])
                   \/ ~DictHas(pc._id_to_index, line_points[i][2])
                   \/ line_points[i][1] = line_points[i][2] }
        first == CHOOSE i \in bad : \A j \in bad : i <= j
    IN IF bad # {}
       THEN Raised([pc EXCEPT !._break_lines = SubSeq(line_points, 1, first - 1),
                              !._triangulation = None],
                   IF \/ ~DictHas(pc._id_to_index, line_points[first][1])
                      \/ ~DictHas(pc._id_to_index, line_points[first][2])
                   THEN "KeyError" ELSE "ValueError(break line to itself)")
       ELSE Returned([pc EXCEPT !._break_lines = line_points,
                                !._triangulation = None], <<>>)

break_lines(pc, line_points) ==
    LET bad == { i \in 1..Len(line_points) :
                   \/ ~DictHas(pc._id_to_index, line_points[i][1])
                   \/ ~DictHas(pc._id_to_index, line_points[i][2])
                   \/ line_points[i][1] = line_points[i][2] }
        first == CHOOSE i \in bad : \A j \in bad : i <= j
    IN IF bad # {}
       THEN IF \/ ~DictHas(pc._id_to_index, line_points[first][1])
               \/ ~DictHas(pc._id_to_index, line_points[first][2])
            THEN Raised(pc, "KeyError")
            ELSE Raised(pc, "ValueError(break line to itself)")
       ELSE Returned([pc EXCEPT !._break_lines = line_points,
                                !._triangulation = None], <<>>)

\* ccw and line_intersects of _line_intersects_triangle.
ccw(A, B, C) == (C[2] - A[2]) * (B[1] - A[1]) > (B[2] - A[2]) * (C[1] - A[1])

line_intersects(A, B, C, D) ==
    /\ ccw(A, C, D) # ccw(B, C, D)
    /\ ccw(A, B, C) # ccw(A, B, D)

\* triangle is the three (x, y) rows of a simplex.
_line_intersects_triangle(p1, p2, triangle) ==
    \/ line_intersects(p1, p2, triangle[1], triangle[2])
    \/ line_intersects(p1, p2, triangle[2], triangle[3])
    \/ line_intersects(p1, p2, triangle[3], triangle[1])

\* _split_triangle: the triangulations of the mesh points and the midpoint
\* of the break line.  The rows of tri are held doubled, so that the
\* midpoint is exact.
_split_triangle(tri, p1_idx, p2_idx) ==
    LET p1 == Row(tri.points, p1_idx)
        p2 == Row(tri.points, p2_idx)
        mid == <<(p1[1] + p2[1]) \div 2, (p1[2] + p2[2]) \div 2>>
    IN Delaunay(Append(tri.points, mid))

\* The rows doubled.
Doubled(rows) == [i \in 1..Len(rows) |-> <<2 * rows[i][1], 2 * rows[i][2]>>]

\* The (p1_idx, p2_idx) of the splits the build makes over the initial
\* mesh: for each break line in turn, one per triangle it intersects.
SplitsOf(pc, initial) ==
    LET xy_points == initial.points
        idx(id) == DictGet(pc._id_to_index, id)
        hits(line) ==
            Cardinality({ t \in initial.simplices :
                LET v == Vertices(t)
                IN _line_intersects_triangle(
                       Row(xy_points, idx(line[1])), Row(xy_points, idx(line[2])),
                       << Row(xy_points, v[1]), Row(xy_points, v[2]), Row(xy_points, v[3]) >>) })
        F[i \in 0..Len(pc._break_lines)] ==
            IF i = 0 THEN <<>>
            ELSE F[i - 1] \o [k \in 1..hits(pc._break_lines[i]) |->
                                 << idx(pc._break_lines[i][1]), idx(pc._break_lines[i][2]) >>]
    IN F[Len(pc._break_lines)]

RECURSIVE SplitAll(_, _)
\* The meshes after the splits, made one after the other from the meshes
\* in tris; empty when a split fails.
SplitAll(tris, splits) ==
    IF Len(splits) = 0 THEN tris
    ELSE SplitAll(UNION { _split_triangle(t, splits[1][1], splits[1][2]) : t \in tris },
                  Tail(splits))

\* _ensure_triangulation without the rebuild that ends it: the mesh of the
\* last split is kept.
_ensure_triangulation_keeping_splits(pc) ==
    IF pc._triangulation.built
    THEN { Returned(pc, <<>>) }
    ELSE LET xy_points == xy_columns(reshape3(pc._coords))
         IN IF Len(xy_points) = 0
            THEN { Raised(pc, "ValueError(no points)") }
            ELSE IF Delaunay(xy_points) = {}
            THEN { Raised(pc, "QhullError") }
            ELSE UNION {
                   LET splits == SplitsOf(pc, t)
                       working == SplitAll({ [t EXCEPT !.points = Doubled(@)] }, splits)
                   IN IF working = {}
                      THEN { Raised(pc, "QhullError") }
                      ELSE { Returned([pc EXCEPT !._triangulation =
                                          [w EXCEPT !.break_lines = pc._break_lines]], <<>>) :
                             w \in (IF Len(splits) > 0 THEN working ELSE { t }) } :
                   t \in Delaunay(xy_points) }

\* _ensure_triangulation: every outcome.  break_lines records the list of
\* break lines the build went through.
_ensure_triangulation(pc) ==
    IF pc._triangulation.built
    THEN { Returned(pc, <<>>) }
    ELSE LET xy_points == xy_columns(reshape3(pc._coords))
         IN IF Len(xy_points) = 0
            THEN { Raised(pc, "ValueError(no points)") }
            ELSE IF Delaunay(xy_points) = {}
            THEN { Raised(pc, "QhullError") }
            ELSE UNION {
                   LET splits == SplitsOf(pc, t)
                       modified == Len(splits) > 0
                       working == SplitAll({ [t EXCEPT !.points = Doubled(@)] }, splits)
                   IN IF working = {}
                      THEN { Raised(pc, "QhullError") }
                      ELSE { Returned([pc EXCEPT !._triangulation =
                                          [f EXCEPT !.break_lines = pc._break_lines]], <<>>) :
                             f \in (IF modified THEN Delaunay(xy_points) ELSE { t }) } :
                   t \in Delaunay(xy_points) }

\* Unnormalised barycentric weights of q in simplex t, and their sum.
BaryWeights(points, t, q) ==
    LET v == Vertices(t)
        a == Row(points, v[1])
        b == Row(points, v[2])
        c == Row(points, v[3])
    IN <<Orient(q, b, c), Orient(a, q, c), Orient(a, b, q)>>

\* Delaunay.find_simplex(q): the simplices that contain q.
find_simplex(tri, q) ==
    { t \in tri.simplices :
        LET w == BaryWeights(tri.points, t, q)
        IN \/ \A i \in 1..3 : w[i] >= 0
           \/ \A i \in 1..3 : w[i] <= 0 }

\* _point_to_line_distance, squared, as a fraction.
_point_to_line_distance(x, y, p1, p2) ==
    LET dx == p2.x - p1.x
        dy == p2.y - p1.y
        line_len_sq == dx * dx + dy * dy
        cross == (x - p1.x) * dy - (y - p1.y) * dx
    IN IF line_len_sq = 0
       THEN <<(x - p1.x) * (x - p1.x) + (y - p1.y) * (y - p1.y), 1>>
       ELSE <<cross * cross, line_len_sq>>

\* _project_point_to_line: the parameter clamped to [0, 1], as a fraction.
_project_point_to_line(x, y, p1, p2) ==
    LET dx == p2.x - p1.x
        dy == p2.y - p1.y
        line_len_sq == dx * dx + dy * dy
        dot == (x - p1.x) * dx + (y - p1.y) * dy
    IN IF line_len_sq = 0 THEN <<0, 1>>
       ELSE IF dot < 0 THEN <<0, 1>>
       ELSE IF dot > line_len_sq THEN <<1, 1>>
       ELSE Frac(dot, line_len_sq)

\* The break line nearest to (x, y): the first of the least distance.
nearest_line(pc, x, y) ==
    LET bl == pc._break_lines
        dist(i) == _point_to_line_distance(x, y, get_point(pc, bl[i][1]).value,
                                           get_point(pc, bl[i][2]).value)
        best == CHOOSE i \in 1..Len(bl) :
                    /\ \A j \in 1..Len(bl) : ~FracLess(dist(j), dist(i))
                    /\ \A j \in 1..(i - 1) : FracLess(dist(i), dist(j))
    IN [p1 |-> get_point(pc, bl[best][1]).value,
        p2 |-> get_point(pc, bl[best][2]).value,
        min_dist |-> dist(best)]

\* interpolate_z, method 'barycentric', after _ensure_triangulation.
interpolate_barycentric(pc, x, y) ==
    LET tri == pc._triangulation
        points_array == reshape3(pc._coords)
        near == nearest_line(pc, x, y)
        t == _project_point_to_line(x, y, near.p1, near.p2)
        standard(simplex) ==
            LET v == Vertices(simplex)
                w == BaryWeights(tri.points, simplex, <<x, y>>)
            IN Frac(w[1] * Row(points_array, v[1])[3] + w[2] * Row(points_array, v[2])[3]
                      + w[3] * Row(points_array, v[3])[3],
                    w[1] + w[2] + w[3])
    IN IF find_simplex(tri, <<x, y>>) = {}
       THEN { Raised(pc, "ValueError(outside boundary)") }
       ELSE IF Len(pc._break_lines) > 0 /\ 100 * near.min_dist[1] < near.min_dist[2]
       THEN { Returned(pc, Frac(near.p1.z * t[2] + t[1] * (near.p2.z - near.p1.z), t[2])) }
       ELSE { Returned(pc, standard(simplex)) : simplex \in find_simplex(tri, <<x, y>>) }

\* sum(weights * z_values) / sum(weights) with weights = 1 / ds, exactly.
WeightedMean(zs, ds) ==
    LET k == Len(ds)
        P[i \in 0..k] == IF i = 0 THEN 1 ELSE P[i - 1] * ds[i]
        all == P[k]
        N[i \in 0..k] == IF i = 0 THEN 0 ELSE N[i - 1] + zs[i] * (all \div ds[i])
        D[i \in 0..k] == IF i = 0 THEN 0 ELSE D[i - 1] + (all \div ds[i])
    IN Frac(N[k], D[k])

\* The k of the inverse-distance query.
DiwNeighbours == 5

\* The 'diw' branch asking for DiwNeighbours neighbours whatever the count.
interpolate_diw_unclamped(pc, x, y) ==
    LET points == reshape3(pc._coords)
        tree == IF pc._kdtree.built THEN pc._kdtree ELSE cKDTree(xy_columns(points))
        pc1 == [pc EXCEPT !._kdtree = tree]
        k == DiwNeighbours
        answer(indices) ==
            IF \E i \in 1..k : indices[i] >= Len(points) \/ indices[i] >= Len(tree.points)
            THEN Raised(pc1, "IndexError")
            ELSE LET ds == [i \in 1..k |-> Dist2(Row(tree.points, indices[i]), <<x, y>>)]
                     zs == [i \in 1..k |-> Row(points, indices[i])[3]]
                 IN IF ds[1] = 0
                    THEN Returned(pc1, Frac(zs[1], 1))
                    ELSE Returned(pc1, WeightedMean(zs, ds))
    IN { answer(indices) : indices \in cKDTree_query(tree.points, <<x, y>>, k) }

\* interpolate_z, method 'diw', after _ensure_triangulation.
interpolate_diw(pc, x, y) ==
    LET points == reshape3(pc._coords)
        tree == IF pc._kdtree.built THEN pc._kdtree ELSE cKDTree(xy_columns(points))
        pc1 == [pc EXCEPT !._kdtree = tree]
        n == Len(pc._id_to_index)
        k == IF DiwNeighbours < n THEN DiwNeighbours ELSE n
        answer(indices) ==
            IF \E i \in 1..k : indices[i] >= Len(points) \/ indices[i] >= Len(tree.points)
            THEN Raised(pc1, "IndexError")
            ELSE LET ds == [i \in 1..k |-> Dist2(Row(tree.points, indices[i]), <<x, y>>)]
                     zs == [i \in 1..k |-> Row(points, indices[i])[3]]
                 IN IF ds[1] = 0
                    THEN Returned(pc1, Frac(zs[1], 1))
                    ELSE Returned(pc1, WeightedMean(zs, ds))
    IN { answer(indices) : indices \in cKDTree_query(tree.points, <<x, y>>, k) }

\* interpolate_z that drops the declared break lines once it has answered.
interpolate_z_forgetting_break_lines(pc, x, y, method) ==
    IF method \notin {"barycentric", "diw"}
    THEN { Raised(pc, "ValueError(invalid method)") }
    ELSE { [r EXCEPT !.obj._break_lines = <<>>] :
           r \in UNION { IF e.raised # "None" THEN { e }
                         ELSE IF method = "barycentric"
                              THEN interpolate_barycentric(e.obj, x, y)
                              ELSE interpolate_diw(e.obj, x, y) :
                         e \in _ensure_triangulation(pc) } }

interpolate_z(pc, x, y, method) ==
    IF method \notin {"barycentric", "diw"}
    THEN { Raised(pc, "ValueError(invalid method)") }
    ELSE UNION { IF e.raised # "None" THEN { e }
                 ELSE IF method = "barycentric"
                      THEN interpolate_barycentric(e.obj, x, y)
                      ELSE interpolate_diw(e.obj, x, y) :
                 e \in _ensure_triangulation(pc) }

\* len(cloud): the number of stored points.
PointCloud_len(pc) == Len(pc._id_to_index)

\* get_points_array(): the dense (x, y, z) rows in position order.
get_points_array(pc) == reshape3(pc._coords)

(***************************************************************************)
(* TerrainManager (terrain_storage.py).                                    *)
(***************************************************************************)
\* precision is the fraction <<numerator, denominator>>; _coordinate_scale
\* is its inverse.
TerrainManager_init ==
    [point_cloud |-> PointCloud_init, kdtree |-> None, precision |-> <<1, 1000>>]

\* _update_spatial_index: row i of the array is get_point(i).
_update_spatial_index(tm) ==
    LET n == PointCloud_len(tm.point_cloud)
        points_array == [i \in 1..n |->
            LET point == get_point(tm.point_cloud, i - 1).value
            IN <<point.x, point.y, point.z>>]
    IN IF n = 0 THEN Returned(tm, <<>>)
       ELSE IF \E i \in 0..(n - 1) : get_point(tm.point_cloud, i).raised # "None"
       THEN Raised(tm, "KeyError")
       ELSE Returned([tm EXCEPT !.kdtree = cKDTree(points_array)], <<>>)

RECURSIVE add_each(_, _)
\* for point in points: self.point_cloud.add_point(point)
add_each(pc, points) ==
    IF Len(points) = 0 THEN Returned(pc, <<>>)
    ELSE LET r == add_point(pc, Head(points))
         IN IF r.raised # "None" THEN r ELSE add_each(r.obj, Tail(points))

add_points(tm, points) ==
    LET r == add_each(tm.point_cloud, points)
    IN IF r.raised # "None"
       THEN Raised([tm EXCEPT !.point_cloud = r.obj], r.raised)
       ELSE _update_spatial_index([tm EXCEPT !.point_cloud = r.obj])

\* [self.point_cloud.get_point(int(idx)) for idx in indices]
points_of(tm, indices) ==
    IF \E i \in 1..Len(indices) : get_point(tm.point_cloud, indices[i]).raised # "None"
    THEN Raised(tm, "KeyError")
    ELSE Returned(tm, [i \in 1..Len(indices) |-> get_point(tm.point_cloud, indices[i]).value])

find_nearest_neighbors(tm, query_point, k) ==
    LET n == PointCloud_len(tm.point_cloud)
        kk == IF k < n THEN k ELSE n
    IN IF ~tm.kdtree.built \/ n = 0
       THEN { Returned(tm, <<>>) }
       ELSE IF k # 1 /\ kk = 1
       THEN { Raised(tm, "TypeError") }
       ELSE { points_of(tm, indices) :
              indices \in cKDTree_query(tm.kdtree.points, query_point, kk) }

find_points_in_radius(tm, center, radius) ==
    IF ~tm.kdtree.built
    THEN { Returned(tm, <<>>) }
    ELSE { points_of(tm, indices) :
           indices \in cKDTree_query_ball_point(tm.kdtree.points, center, radius) }

\* Python's round() of n / d, d > 0: to the nearest integer, a tie to the
\* even one.
round(n, d) ==
    LET f == n \div d
        r == n % d
    IN IF 2 * r < d THEN f
       ELSE IF 2 * r > d THEN f + 1
       ELSE IF f % 2 = 0 THEN f ELSE f + 1

\* int(round(coord * self._coordinate_scale))
quantize_coordinates(tm, coord) == round(coord * tm.precision[2], tm.precision[1])

\* quantized / self._coordinate_scale
dequantize_coordinates(tm, quantized) == Frac(quantized * tm.precision[1], tm.precision[2])

\* The largest value of dtype=np.int32.
Int32Max == 2147483647

\* The scaled coordinate fits the 32-bit cell.
FitsInt32(tm, coord) == Abs(coord) <= Int32Max \div tm.precision[2]

\* a + b in 32 bits, two's complement, for a, b within the width.
AddWrap(a, b) ==
    IF a > 0 /\ b > 0 /\ a > Int32Max - b
    THEN ((a - Int32Max) - 1) + ((b - Int32Max) - 1)
    ELSE IF a < 0 /\ b < 0 /\ a < ((-Int32Max) - 1) - b
    THEN ((a + Int32Max) + 1) + ((b + Int32Max) + 1)
    ELSE a + b

RECURSIVE MulWrap(_, _)
\* c * m in 32 bits, c >= 0.
MulWrap(c, m) == IF c = 0 THEN 0 ELSE AddWrap(MulWrap(c - 1, m), m)

\* What an int32 cell keeps of the quantized coordinate: the value, or
\* its low 32 bits when it does not fit (precision 1/d, coord >= 0).
int32(tm, coord) ==
    IF FitsInt32(tm, coord)
    THEN quantize_coordinates(tm, coord)
    ELSE MulWrap(coord, tm.precision[2])

\* The file while only its attributes are written.
Hdf5Attrs(tm) ==
    [ precision |-> tm.precision, num_points |-> PointCloud_len(tm.point_cloud),
      datasets |-> <<>> ]

\* save_to_hdf5: every outcome; obj is the file.  Row i is get_point(i).
\* A quantized coordinate beyond the width is refused with OverflowError or
\* kept modulo 2^32, as the numpy build decides.
save_to_hdf5(tm) ==
    LET n == PointCloud_len(tm.point_cloud)
        missing == { i \in 0..(n - 1) : get_point(tm.point_cloud, i).raised # "None" }
        point(i) == get_point(tm.point_cloud, i).value
        wide == { i \in (0..(n - 1)) \ missing :
                    ~( /\ FitsInt32(tm, point(i).x)
                       /\ FitsInt32(tm, point(i).y)
                       /\ FitsInt32(tm, point(i).z) ) }
        first(S) == IF S = {} THEN n ELSE CHOOSE i \in S : \A j \in S : i <= j
        ids == [i \in 1..n |-> point(i - 1).id]
        coords == [i \in 1..n |-> << int32(tm, point(i - 1).x),
                                     int32(tm, point(i - 1).y),
                                     int32(tm, point(i - 1).z) >>]
        looped == IF missing # {}
                  THEN Raised(Hdf5Attrs(tm), "KeyError")
                  ELSE Returned([Hdf5Attrs(tm) EXCEPT !.datasets =
                                    << [ids |-> ids, coordinates |-> coords] >>], <<>>)
    IN IF first(wide) < first(missing)
       THEN { Raised(Hdf5Attrs(tm), "OverflowError"), looped }
       ELSE { looped }

\* load_from_hdf5 of the file: the value is the TerrainManager built.  Every
\* id read is a non-negative int and every coordinate a finite float, so
\* Point3D accepts them.
load_from_hdf5(file) ==
    IF Len(file) = 0
    THEN Raised(file, "FileNotFoundError")
    ELSE IF Len(file[1].datasets) = 0
    THEN Raised(file, "KeyError")
    ELSE LET terrain == [TerrainManager_init EXCEPT !.precision = file[1].precision]
             ids == file[1].datasets[1].ids
             coords == file[1].datasets[1].coordinates
             points == [i \in 1..Len(ids) |->
                          Pt(ids[i], dequantize_coordinates(terrain, coords[i][1]),
                                     dequantize_coordinates(terrain, coords[i][2]),
                                     dequantize_coordinates(terrain, coords[i][3]))]
             added == add_points(terrain, points)
         IN IF added.raised # "None"
            THEN Raised(file, added.raised)
            ELSE Returned(file, added.obj)

(***************************************************************************)
(* TerrainAnalyzer (terrain_analysis.py).  TerrainInterpolator             *)
(* (terrain_interpolation.py) builds and keeps its array the same way.     *)
(***************************************************************************)
\* _update_points_array: row i of the array is get_point(i); obj is the
\* array.
_update_points_array(terrain) ==
    LET n == PointCloud_len(terrain.point_cloud)
    IN IF \E i \in 0..(n - 1) : get_point(terrain.point_cloud, i).raised # "None"
       THEN Raised(<<>>, "KeyError")
       ELSE Returned([i \in 1..n |->
                        LET point == get_point(terrain.point_cloud, i - 1).value
                        IN <<point.x, point.y, point.z>>], <<>>)

\* TerrainAnalyzer(terrain): the value is the analyzer built.
TerrainAnalyzer_init(terrain) ==
    LET r == _update_points_array(terrain)
    IN IF r.raised # "None" THEN Raised(<<>>, r.raised)
       ELSE Returned(<<>>, [_points_array |-> r.obj])

\* self._points_array[:, 2].min()
MinZ(points_array) ==
    CHOOSE z \in { points_array[i][3] : i \in 1..Len(points_array) } :
        \A i \in 1..Len(points_array) : z <= points_array[i][3]

\* Six times the prism over one triangle: |cross(a, b)| / 2 * (mean z - base).
PrismTerm(points_array, simplex, base_height) ==
    LET v == Vertices(simplex)
        p0 == Row(points_array, v[1])
        p1 == Row(points_array, v[2])
        p2 == Row(points_array, v[3])
    IN Abs(Orient(p0, p1, p2)) * ((p0[3] + p1[3] + p2[3]) - 3 * base_height)

RECURSIVE SumOver(_, _, _)
SumOver(S, points_array, base_height) ==
    IF S = {} THEN 0
    ELSE LET t == CHOOSE t \in S : TRUE
         IN PrismTerm(points_array, t, base_height) + SumOver(S \ {t}, points_array, base_height)

\* calculate_volume: every outcome; base_height is <<>> for None, else
\* <<the height>>.
calculate_volume(an, base_height) ==
    IF Len(an._points_array) < 3
    THEN { Returned(an, <<0, 1>>) }
    ELSE LET base == IF Len(base_height) = 0 THEN MinZ(an._points_array) ELSE base_height[1]
             meshes == Delaunay(xy_columns(an._points_array))
         IN IF meshes = {}
            THEN { Raised(an, "QhullError") }
            ELSE { Returned(an, Frac(SumOver(tri.simplices, an._points_array, base), 6)) :
                   tri \in meshes }

(***************************************************************************)
(* FibonacciCalculator (fibonacci.py).  A call is made with depth frames   *)
(* already on the interpreter's stack; a call that would pass the          *)
(* recursion limit raises RecursionError.                                  *)
(***************************************************************************)
\* sys.getrecursionlimit(), the interpreter's default.
RecursionLimit == 1000

\* @lru_cache(maxsize=128)
maxsize == 128

\* A hit moves the entry to the newest place.
lru_hit(cache, n) ==
    LET i == CHOOSE i \in 1..Len(cache) : cache[i][1] = n
    IN [j \in 1..Len(cache) |->
           IF j < i THEN cache[j] ELSE IF j < Len(cache) THEN cache[j + 1] ELSE cache[i]]

\* A new entry is the newest; the oldest leaves a full cache.
lru_put(cache, n, value) ==
    IF DictHas(cache, n) THEN cache
    ELSE IF Len(cache) >= maxsize THEN Append(Tail(cache), <<n, value>>)
    ELSE Append(cache, <<n, value>>)

RECURSIVE calculate(_, _, _, _)
\* calculate(n) through the lru_cache wrapper, which takes wrapper frames
\* (0 or 1, as the interpreter build has it) besides the frame of the
\* function; obj is the cache.  An exception is not cached.
calculate(cache, n, depth, wrapper) ==
    IF depth + wrapper > RecursionLimit
    THEN Raised(cache, "RecursionError")
    ELSE IF DictHas(cache, n)
    THEN Returned(lru_hit(cache, n), DictGet(cache, n))
    ELSE IF depth + wrapper + 1 > RecursionLimit
    THEN Raised(cache, "RecursionError")
    ELSE IF n < 0
    THEN Raised(cache, "ValueError")
    ELSE IF n <= 1
    THEN Returned(lru_put(cache, n, n), n)
    ELSE LET first == calculate(cache, n - 1, depth + wrapper + 1, wrapper)
         IN IF first.raised # "None" THEN first
            ELSE LET second == calculate(first.obj, n - 2, depth + wrapper + 1, wrapper)
                 IN IF second.raised # "None" THEN second
                    ELSE Returned(lru_put(second.obj, n, first.value + second.value),
                                  first.value + second.value)

RECURSIVE iterate(_, _, _, _)
\* for _ in range(i, n + 1): prev, curr = curr, prev + curr
iterate(prev, curr, i, n) ==
    IF i > n THEN curr ELSE iterate(curr, prev + curr, i + 1, n)

\* calculate_iterative starting its loop from prev, curr = 1, 1.
calculate_iterative_from_one(n, depth) ==
    IF depth + 1 > RecursionLimit
    THEN Raised(<<>>, "RecursionError")
    ELSE IF n < 0
    THEN Raised(<<>>, "ValueError")
    ELSE IF n <= 1
    THEN Returned(<<>>, n)
    ELSE Returned(<<>>, iterate(1, 1, 2, n))

calculate_iterative(n, depth) ==
    IF depth + 1 > RecursionLimit
    THEN Raised(<<>>, "RecursionError")
    ELSE IF n < 0
    THEN Raised(<<>>, "ValueError")
    ELSE IF n <= 1
    THEN Returned(<<>>, n)
    ELSE Returned(<<>>, iterate(0, 1, 2, n))

(***************************************************************************)
(* TerrainModel (terrain_model.py).                                        *)
(***************************************************************************)
\* float('inf') and float('-inf'): beyond every coordinate.
PosInf == 1000000

NegInf == -1000000

Min(a, b) == IF a < b THEN a ELSE b

Max(a, b) == IF a > b THEN a ELSE b

TerrainModel_init ==
    [ points |-> PointCloud_init, _kdtree |-> None, _triangulation |-> None,
      _break_lines |-> <<>>, _points_array_cache |-> None,
      _stats |-> [ point_count |-> 0,
                   bounds |-> [ min_x |-> PosInf, max_x |-> NegInf,
                                min_y |-> PosInf, max_y |-> NegInf,
                                min_z |-> PosInf, max_z |-> NegInf ],
                   triangles |-> {}, slopes |-> {} ] ]

\* _get_points_array: the model with its cache filled.
_get_points_array(tm) ==
    IF tm._points_array_cache.built THEN tm
    ELSE [tm EXCEPT !._points_array_cache = ndarray(get_points_array(tm.points))]

_update_bounds(bounds, point) ==
    [ min_x |-> Min(bounds.min_x, point.x), max_x |-> Max(bounds.max_x, point.x),
      min_y |-> Min(bounds.min_y, point.y), max_y |-> Max(bounds.max_y, point.y),
      min_z |-> Min(bounds.min_z, point.z), max_z |-> Max(bounds.max_z, point.z) ]

\* add_point recording the point in the statistics before storing it.
TerrainModel_add_point_counting_first(tm, point) ==
    LET counted == [tm EXCEPT !._stats.bounds = _update_bounds(@, point),
                              !._stats.point_count = @ + 1]
        r == add_point(tm.points, point)
    IN IF r.raised # "None"
       THEN Raised(counted, r.raised)
       ELSE Returned([counted EXCEPT
                         !.points = r.obj,
                         !._kdtree = None,
                         !._triangulation = None,
                         !._points_array_cache = None], <<>>)

TerrainModel_add_point(tm, point) ==
    LET r == add_point(tm.points, point)
    IN IF r.raised # "None"
       THEN Raised(tm, r.raised)
       ELSE Returned([tm EXCEPT
                         !.points = r.obj,
                         !._stats.bounds = _update_bounds(@, point),
                         !._stats.point_count = @ + 1,
                         !._kdtree = None,
                         !._triangulation = None,
                         !._points_array_cache = None], <<>>)

add_break_line(tm, point_ids) ==
    LET tm1 == _get_points_array(tm)
    IN IF \E i \in 1..Len(point_ids) : ~DictHas(tm.points._id_to_index, point_ids[i])
       THEN Raised(tm1, "ValueError(break line point missing)")
       ELSE Returned([tm1 EXCEPT !._break_lines = Append(@, point_ids),
                                 !._triangulation = None], <<>>)

get_nearest_points(tm, x, y, k) ==
    LET tm1 == IF tm._kdtree.built THEN tm
               ELSE LET c == _get_points_array(tm)
                    IN [c EXCEPT !._kdtree = cKDTree(xy_columns(c._points_array_cache.points))]
        tm2 == _get_points_array(tm1)
        points_array == tm2._points_array_cache.points
        id_list == DictKeys(tm.points._id_to_index)
        answer(indices) ==
            IF \E i \in 1..k : indices[i] >= Len(points_array) \/ indices[i] >= Len(id_list)
            THEN Raised(tm2, "IndexError")
            ELSE Returned(tm2, [i \in 1..k |->
                    Pt(id_list[indices[i] + 1], Row(points_array, indices[i])[1],
                       Row(points_array, indices[i])[2], Row(points_array, indices[i])[3])])
    IN { answer(indices) : indices \in cKDTree_query(tm1._kdtree.points, <<x, y>>, k) }

\* _compute_triangulation without the test of the point count.
_compute_triangulation_any_count(tm) ==
    LET tm1 == _get_points_array(tm)
        xy == xy_columns(tm1._points_array_cache.points)
    IN IF Delaunay(xy) = {}
       THEN { Raised(tm1, "QhullError") }
       ELSE { Returned([tm1 EXCEPT !._triangulation = t], <<>>) : t \in Delaunay(xy) }

\* _compute_triangulation: every outcome.
_compute_triangulation(tm) ==
    IF PointCloud_len(tm.points) < 3
    THEN { Returned(tm, <<>>) }
    ELSE LET tm1 == _get_points_array(tm)
             xy == xy_columns(tm1._points_array_cache.points)
         IN IF Delaunay(xy) = {}
            THEN { Raised(tm1, "QhullError") }
            ELSE { Returned([tm1 EXCEPT !._triangulation = t], <<>>) : t \in Delaunay(xy) }

\* interpolate_elevation blending over a triangle of the mesh whether or
\* not it contains (x, y).
elevation_in_mesh_extrapolating(tm, x, y) ==
    LET tm1 == _get_points_array(tm)
        points_array == tm1._points_array_cache.points
        tri == tm1._triangulation
    IN { LET v == Vertices(simplex)
             w == BaryWeights(tri.points, simplex, <<x, y>>)
         IN Returned(tm1,
                Frac(w[1] * Row(points_array, v[1])[3] + w[2] * Row(points_array, v[2])[3]
                       + w[3] * Row(points_array, v[3])[3],
                     w[1] + w[2] + w[3])) :
         simplex \in tri.simplices }

\* interpolate_elevation once the triangulation is there.
elevation_in_mesh(tm, x, y) ==
    LET tm1 == _get_points_array(tm)
        points_array == tm1._points_array_cache.points
        tri == tm1._triangulation
        value(simplex) ==
            LET v == Vertices(simplex)
                w == BaryWeights(tri.points, simplex, <<x, y>>)
            IN IF \E i \in 1..3 : v[i] >= Len(points_array)
               THEN Returned(tm1, <<>>)
               ELSE Returned(tm1,
                      Frac(w[1] * Row(points_array, v[1])[3] + w[2] * Row(points_array, v[2])[3]
                             + w[3] * Row(points_array, v[3])[3],
                           w[1] + w[2] + w[3]))
    IN IF find_simplex(tri, <<x, y>>) = {}
       THEN { Returned(tm1, <<>>) }
       ELSE { value(simplex) : simplex \in find_simplex(tri, <<x, y>>) }

\* interpolate_elevation: None is the empty value.
interpolate_elevation(tm, x, y) ==
    UNION { IF c.raised # "None" THEN { c }
            ELSE IF ~c.obj._triangulation.built THEN { Returned(c.obj, <<>>) }
            ELSE elevation_in_mesh(c.obj, x, y) :
            c \in (IF tm._triangulation.built THEN { Returned(tm, <<>>) }
                   ELSE _compute_triangulation(tm)) }

\* What compute_surface_metrics takes from one mesh triangle: the normal
\* np.cross(v1, v2) and the sum of the three vertex elevations.  The
\* triangle's area is half the normal's length, its slope the angle of the
\* normal to the vertical, its volume term area * z_sum / 3.
TriangleTerm(points_array, simplex) ==
    LET v == Vertices(simplex)
        a == Row(points_array, v[1])
        b == Row(points_array, v[2])
        c == Row(points_array, v[3])
        v1 == <<b[1] - a[1], b[2] - a[2], b[3] - a[3]>>
        v2 == <<c[1] - a[1], c[2] - a[2], c[3] - a[3]>>
    IN [ simplex |-> simplex,
         normal |-> << v1[2] * v2[3] - v1[3] * v2[2],
                       v1[3] * v2[1] - v1[1] * v2[3],
                       v1[1] * v2[2] - v1[2] * v2[1] >>,
         z_sum |-> a[3] + b[3] + c[3] ]

\* The statistics record with mean_slope, max_slope, surface_area and
\* volume 0.0 and slopes {}: no triangle term, no per-point slope.
ZeroMetrics(stats) == [stats EXCEPT !.triangles = {}, !.slopes = {}]

\* The integers next to np.linalg.norm: the largest r with r * r <= n and
\* the least r with r * r >= n.
SqrtFloor(n) == CHOOSE r \in 0..n : r * r <= n /\ (r + 1) * (r + 1) > n

SqrtCeil(n) == IF SqrtFloor(n) * SqrtFloor(n) = n THEN SqrtFloor(n) ELSE SqrtFloor(n) + 1

NormSquared(normal) == normal[1] * normal[1] + normal[2] * normal[2] + normal[3] * normal[3]

RECURSIVE SumTerms(_, _)
SumTerms(S, f) ==
    IF S = {} THEN 0
    ELSE LET t == CHOOSE t \in S : TRUE
         IN f[t] + SumTerms(S \ {t}, f)

\* Six times the 'volume' statistic, np.sum(areas * np.mean(z)) with
\* areas = normal_lengths / 2: the integers it lies between (both are the
\* value itself when every normal has an integer length).
volume_low(stats) ==
    SumTerms(stats.triangles,
             [t \in stats.triangles |->
                 IF t.z_sum >= 0 THEN SqrtFloor(NormSquared(t.normal)) * t.z_sum
                 ELSE SqrtCeil(NormSquared(t.normal)) * t.z_sum])

volume_high(stats) ==
    SumTerms(stats.triangles,
             [t \in stats.triangles |->
                 IF t.z_sum >= 0 THEN SqrtCeil(NormSquared(t.normal)) * t.z_sum
                 ELSE SqrtFloor(NormSquared(t.normal)) * t.z_sum])

\* compute_surface_metrics: every outcome.  An exception raised inside the
\* try block is logged and the metrics reset; the call returns.
compute_surface_metrics(tm) ==
    IF PointCloud_len(tm.points) < 3
    THEN { Returned([tm EXCEPT !._stats = ZeroMetrics(@)], <<>>) }
    ELSE LET tm1 == _get_points_array(tm)
             points_array == tm1._points_array_cache.points
             measured(t) ==
                 IF \E simplex \in t._triangulation.simplices :
                        \E i \in simplex : i >= Len(points_array)
                 THEN Returned([t EXCEPT !._stats = ZeroMetrics(@)], <<>>)
                 ELSE Returned([t EXCEPT
                         !._stats.triangles =
                             { TriangleTerm(points_array, simplex) :
                                 simplex \in t._triangulation.simplices },
                         !._stats.slopes =
                             { DictKeys(t.points._id_to_index)[i + 1] :
                                 i \in UNION t._triangulation.simplices }], <<>>)
         IN UNION { IF c.raised # "None"
                    THEN { Returned([c.obj EXCEPT !._stats = ZeroMetrics(@)], <<>>) }
                    ELSE { measured(c.obj) } :
                    c \in (IF tm1._triangulation.built THEN { Returned(tm1, <<>>) }
                           ELSE _compute_triangulation(tm1)) }

\* The bounds of a terrain that has no points, as get_stats reports them.
ZeroBounds ==
    [ min_x |-> 0, max_x |-> 0, min_y |-> 0, max_y |-> 0, min_z |-> 0, max_z |-> 0 ]

\* get_stats: every outcome; the value is the statistics record.
get_stats(tm) ==
    IF PointCloud_len(tm.points) > 0
    THEN { LET fixed == IF c.obj._stats.bounds.min_x = PosInf
                        THEN [c.obj EXCEPT !._stats.bounds = ZeroBounds]
                        ELSE c.obj
           IN IF c.raised # "None" THEN c ELSE Returned(fixed, fixed._stats) :
           c \in compute_surface_metrics(tm) }
    ELSE { Returned(tm, tm._stats) }

(***************************************************************************)
(* Database (database.py).  files maps a terrain name to what its points   *)
(* file and its metadata file hold; _terrain_cache maps a name to the      *)
(* cached terrain object, named by its name.                               *)
(***************************************************************************)
Database_init == [ files |-> <<>>, _terrain_cache |-> <<>> ]

\* Largest number of cached terrains.
_max_cache_size == 5

RECURSIVE DropFirst(_, _)
DropFirst(d, n) == IF n <= 0 \/ Len(d) = 0 THEN d ELSE DropFirst(Tail(d), n - 1)

\* _trim_cache removing the newest entries instead of the oldest.
_trim_cache_dropping_newest(db) ==
    IF Len(db._terrain_cache) > _max_cache_size
    THEN [db EXCEPT !._terrain_cache = SubSeq(@, 1, _max_cache_size)]
    ELSE db

_trim_cache(db) ==
    IF Len(db._terrain_cache) > _max_cache_size
    THEN [db EXCEPT !._terrain_cache = DropFirst(@, Len(@) - _max_cache_size)]
    ELSE db

\* save_terrain: every outcome; obj is the database and the terrain, which
\* get_stats brings up to date.
save_terrain(db, terrain, name) ==
    IF name = ""
    THEN { Raised([db |-> db, terrain |-> terrain], "ValueError(no name)") }
    ELSE LET points_array == get_points_array(terrain.points)
             point_ids == DictKeys(terrain.points._id_to_index)
         IN { IF st.raised # "None"
              THEN Raised([db |-> [db EXCEPT !.files =
                                      DictSet(@, name, [ num_points |-> Len(point_ids),
                                                         point_ids |-> point_ids,
                                                         points_array |-> points_array,
                                                         stats |-> <<>> ])],
                           terrain |-> st.obj], st.raised)
              ELSE Returned([db |-> _trim_cache(
                                [db EXCEPT
                                    !.files = DictSet(@, name,
                                        [ num_points |-> Len(point_ids),
                                          point_ids |-> point_ids,
                                          points_array |-> points_array,
                                          stats |-> <<st.value>> ]),
                                    !._terrain_cache = DictSet(@, name, name)]),
                             terrain |-> st.obj], <<>>) :
              st \in get_stats(terrain) }

\* The loop of load_terrain over the ids and rows read, from row i on:
\* the PointCloud filled, or the exception of the first failing write.
RECURSIVE load_points(_, _, _, _)
load_points(pc, point_ids, points_array, i) ==
    IF i >= Len(point_ids) \/ i >= Len(points_array)
    THEN Returned(pc, <<>>)
    ELSE LET pc1 == [pc EXCEPT !._id_to_index = DictSet(@, point_ids[i + 1], i)]
         IN IF "_coordinates" \notin DOMAIN pc1
            THEN Raised(pc1, "AttributeError")
            ELSE load_points([pc1 EXCEPT !._coordinates = @ \o Row(points_array, i)],
                             point_ids, points_array, i + 1)

\* load_terrain: the value is <<terrain>>, or <<>> for None.
load_terrain(db, name) ==
    IF ~DictHas(db.files, name)
    THEN Returned(db, <<>>)
    ELSE LET file == DictGet(db.files, name)
             filled == load_points(PointCloud_init, file.point_ids, file.points_array, 0)
         IN IF filled.raised # "None" \/ Len(file.stats) = 0
            THEN Returned(db, <<>>)
            ELSE Returned(db, << [TerrainModel_init EXCEPT !.points = filled.obj,
                                                           !._stats = file.stats[1]] >>)

\* delete_terrain: the name leaves the cache, its files are removed; the
\* value tells whether a file was there.
delete_terrain(db, name) ==
    Returned([db EXCEPT !._terrain_cache = DictPop(@, name),
                        !.files = DictPop(@, name)],
             DictHas(db.files, name))

(***************************************************************************)
(* The outcome of the last call.                                           *)
(***************************************************************************)
Outcome(op, args, r) ==
    [op |-> op, args |-> args, raised |-> r.raised, value |-> r.value]

NoCall == [op |-> "init", args |-> <<>>, raised |-> "None", value |-> <<>>]

(***************************************************************************)
(* A PointCloud used directly.                                             *)
(***************************************************************************)
Init ==
    /\ cloud = PointCloud_init
    /\ kdtree = None
    /\ model = TerrainModel_init
    /\ result = NoCall
    /\ inserted = {}
    /\ database = Database_init
    /\ precision = TerrainManager_init.precision
    /\ hdf5 = <<>>
    /\ analyzer = <<>>
    /\ lru_cache = <<>>

\* The store is grown to MaxPoints points at most.
Fits(pc) == PointCloud_len(pc) <= MaxPoints /\ Len(pc._coords) <= 3 * MaxPoints

CloudAddPoint ==
    \E p \in PointPool :
        LET r == add_point(cloud, p)
        IN /\ Fits(r.obj)
           /\ cloud' = r.obj
           /\ result' = Outcome("add_point", p, r)
           /\ inserted' = IF r.raised = "None" THEN inserted \cup {p} ELSE inserted
           /\ UNCHANGED <<kdtree, model, database, precision, hdf5, analyzer, lru_cache>>

CloudGetPoint ==
    \E i \in QueryIds :
        LET r == get_point(cloud, i)
        IN /\ cloud' = r.obj
           /\ result' = Outcome("get_point", i, r)
           /\ UNCHANGED <<kdtree, model, inserted, database, precision, hdf5, analyzer, lru_cache>>

\* Break-line lists handed to break_lines: none, one pair (of stored,
\* unknown or repeated ids), and two pairs.
BreakLineInputs ==
    { <<>>, <<<<0, 1>>>>, <<<<1, 5>>>>, <<<<0, 9>>>>, <<<<5, 5>>>>,
      <<<<0, 1>>, <<0, 5>>>>, <<<<0, 1>>, <<2, 2>>>> }

\* (x, y) places asked of the interpolation.
QueryXY == { <<0, 0>>, <<1, 1>>, <<2, 1>>, <<5, 5>> }

Methods == { "barycentric", "diw", "nearest" }

CloudBreakLines ==
    \E lines \in BreakLineInputs :
        LET r == break_lines(cloud, lines)
        IN /\ cloud' = r.obj
           /\ result' = Outcome("break_lines", lines, r)
           /\ UNCHANGED <<kdtree, model, inserted, database, precision, hdf5, analyzer, lru_cache>>

CloudInterpolateZ ==
    \E q \in QueryXY, method \in Methods :
        \E r \in interpolate_z(cloud, q[1], q[2], method) :
            /\ cloud' = r.obj
            /\ result' = Outcome("interpolate_z", <<q[1], q[2], method>>, r)
            /\ UNCHANGED <<kdtree, model, inserted, database, precision, hdf5, analyzer, lru_cache>>

\* interpolate_z asked at the (x, y) of a stored point.
CloudInterpolateAtPoint ==
    \E i \in 1..Len(cloud._id_to_index), method \in {"barycentric", "diw"} :
        LET p == get_point(cloud, cloud._id_to_index[i][1]).value
        IN \E r \in interpolate_z(cloud, p.x, p.y, method) :
              /\ cloud' = r.obj
              /\ result' = Outcome("interpolate_z", <<p.x, p.y, method>>, r)
              /\ UNCHANGED <<kdtree, model, inserted, database, precision, hdf5, analyzer, lru_cache>>

\* Largest store interpolated at its own points: a triangle and a point
\* on the line through one of its sides.
MaxVertexPoints == 4

VertexAddPoint ==
    \E p \in PointPool :
        LET r == add_point(cloud, p)
        IN /\ PointCloud_len(r.obj) <= MaxVertexPoints
           /\ cloud' = r.obj
           /\ result' = Outcome("add_point", p, r)
           /\ inserted' = IF r.raised = "None" THEN inserted \cup {p} ELSE inserted
           /\ UNCHANGED <<kdtree, model, database, precision, hdf5, analyzer, lru_cache>>

NextVertex == VertexAddPoint \/ CloudBreakLines \/ CloudInterpolateAtPoint

SpecVertex == Init /\ [][NextVertex]_vars

NextCloud == CloudAddPoint \/ CloudGetPoint \/ CloudBreakLines \/ CloudInterpolateZ

SpecCloud == Init /\ [][NextCloud]_vars

(***************************************************************************)
(* A TerrainManager: cloud is its point_cloud, kdtree its kdtree.          *)
(***************************************************************************)
Manager == [point_cloud |-> cloud, kdtree |-> kdtree, precision |-> precision]

\* Batches handed to add_points: of none, one and two pool points.
Batches ==
    {<<>>} \cup { <<p>> : p \in PointPool } \cup { <<p, q>> : p, q \in PointPool }

\* (x, y, z) places asked of the spatial search, and the radii.
QueryXYZ == { <<0, 0, 0>>, <<3, 1, 2>> }

Radii == { 3, 5 }

ManagerAddPoints ==
    \E points \in Batches :
        LET r == add_points(Manager, points)
        IN /\ Fits(r.obj.point_cloud)
           /\ cloud' = r.obj.point_cloud
           /\ kdtree' = r.obj.kdtree
           /\ result' = Outcome("add_points", points, r)
           /\ inserted' = inserted \cup
                 { points[i] : i \in 1..(PointCloud_len(r.obj.point_cloud) - PointCloud_len(cloud)) }
           /\ UNCHANGED <<model, database, precision, hdf5, analyzer, lru_cache>>

ManagerFindNearestNeighbors ==
    \E q \in QueryXYZ, k \in 1..MaxK :
        \E r \in find_nearest_neighbors(Manager, q, k) :
            /\ cloud' = r.obj.point_cloud
            /\ kdtree' = r.obj.kdtree
            /\ result' = Outcome("find_nearest_neighbors", <<q, k>>, r)
            /\ UNCHANGED <<model, inserted, database, precision, hdf5, analyzer, lru_cache>>

ManagerFindPointsInRadius ==
    \E q \in QueryXYZ, radius \in Radii :
        \E r \in find_points_in_radius(Manager, q, radius) :
            /\ cloud' = r.obj.point_cloud
            /\ kdtree' = r.obj.kdtree
            /\ result' = Outcome("find_points_in_radius", <<q, radius>>, r)
            /\ UNCHANGED <<model, inserted, database, precision, hdf5, analyzer, lru_cache>>

NextManager ==
    ManagerAddPoints \/ ManagerFindNearestNeighbors \/ ManagerFindPointsInRadius

SpecManager == Init /\ [][NextManager]_vars

(***************************************************************************)
(* A TerrainManager saved to and loaded from one HDF5 file.                *)
(***************************************************************************)
\* TerrainManager(precision=...): the default, two coarse grids and one so
\* fine that a coordinate of 4 leaves the 32-bit cell.
Precisions == { <<1, 1000>>, <<2, 1>>, <<3, 1>>, <<1, 1000000000>> }

\* The points stored: ids that are positions, in and out of order, and one
\* id that is no position.
StoredPool == { Pt(0, 0, 0, 0), Pt(1, 4, 0, 2), Pt(5, 2, 2, 1) }

StoredBatches ==
    { <<p>> : p \in StoredPool } \cup { <<p, q>> : p, q \in StoredPool }

StorageConstruct ==
    \E p \in Precisions :
        /\ precision' = p
        /\ cloud' = TerrainManager_init.point_cloud
        /\ kdtree' = TerrainManager_init.kdtree
        /\ result' = Outcome("TerrainManager", p, Returned(<<>>, <<>>))
        /\ UNCHANGED <<model, inserted, database, hdf5, analyzer, lru_cache>>

StorageAddPoints ==
    \E points \in StoredBatches :
        LET r == add_points(Manager, points)
        IN /\ Fits(r.obj.point_cloud)
           /\ cloud' = r.obj.point_cloud
           /\ kdtree' = r.obj.kdtree
           /\ result' = Outcome("add_points", points, r)
           /\ UNCHANGED <<model, inserted, database, precision, hdf5, analyzer, lru_cache>>

ManagerSaveToHdf5 ==
    \E r \in save_to_hdf5(Manager) :
        /\ hdf5' = <<r.obj>>
        /\ result' = Outcome("save_to_hdf5", <<>>, r)
        /\ UNCHANGED <<cloud, kdtree, model, inserted, database, precision, analyzer, lru_cache>>

ManagerLoadFromHdf5 ==
    LET r == load_from_hdf5(hdf5)
    IN /\ result' = Outcome("load_from_hdf5", <<>>, r)
       /\ UNCHANGED <<cloud, kdtree, model, inserted, database, precision, hdf5, analyzer, lru_cache>>

NextStorage ==
    StorageConstruct \/ StorageAddPoints \/ ManagerSaveToHdf5 \/ ManagerLoadFromHdf5

SpecStorage == Init /\ [][NextStorage]_vars

(***************************************************************************)
(* A TerrainAnalyzer over the TerrainManager.                              *)
(***************************************************************************)
\* The points analysed: ids 0, 1, 2 are positions, 5 is not; one elevation
\* is below zero.
AnalyzedPool == { Pt(0, 0, 0, -1), Pt(1, 4, 0, 2), Pt(2, 0, 4, 3), Pt(5, 2, 2, 1) }

AnalyzedBatches ==
    { <<p>> : p \in AnalyzedPool } \cup { <<p, q>> : p, q \in AnalyzedPool }

\* base_height arguments: None and a height.
BaseHeights == { <<>>, <<1>> }

AnalyzerAddPoints ==
    \E points \in AnalyzedBatches :
        LET r == add_points(Manager, points)
        IN /\ Fits(r.obj.point_cloud)
           /\ cloud' = r.obj.point_cloud
           /\ kdtree' = r.obj.kdtree
           /\ result' = Outcome("add_points", points, r)
           /\ UNCHANGED <<model, inserted, database, precision, hdf5, analyzer, lru_cache>>

AnalyzerConstruct ==
    LET r == TerrainAnalyzer_init(Manager)
    IN /\ analyzer' = IF r.raised # "None" THEN analyzer ELSE <<r.value>>
       /\ result' = Outcome("TerrainAnalyzer", <<>>, r)
       /\ UNCHANGED <<cloud, kdtree, model, inserted, database, precision, hdf5, lru_cache>>

AnalyzerCalculateVolume ==
    /\ Len(analyzer) = 1
    /\ \E base_height \in BaseHeights :
          \E r \in calculate_volume(analyzer[1], base_height) :
              /\ analyzer' = <<r.obj>>
              /\ result' = Outcome("calculate_volume", base_height, r)
              /\ UNCHANGED <<cloud, kdtree, model, inserted, database, precision, hdf5, lru_cache>>

NextAnalyzer == AnalyzerAddPoints \/ AnalyzerConstruct \/ AnalyzerCalculateVolume

SpecAnalyzer == Init /\ [][NextAnalyzer]_vars

(***************************************************************************)
(* A FibonacciCalculator called from a shallow and from a deep stack.      *)
(***************************************************************************)
\* Largest position asked for.
MaxN == 5

\* Frames on the stack when the calculator is called: none, and all but 4.
Depths == { 0, RecursionLimit - 4 }

\* Frames the lru_cache wrapper takes per call, by interpreter build.
WrapperFrames == { 0, 1 }

FibonacciCalculate ==
    \E n \in (-1)..MaxN, depth \in Depths, wrapper \in WrapperFrames :
        LET r == calculate(lru_cache, n, depth, wrapper)
        IN /\ lru_cache' = r.obj
           /\ result' = Outcome("calculate", [n |-> n, depth |-> depth], r)
           /\ UNCHANGED <<cloud, kdtree, model, inserted, database, precision, hdf5, analyzer>>

FibonacciCalculateIterative ==
    \E n \in (-1)..MaxN, depth \in Depths :
        /\ result' = Outcome("calculate_iterative", [n |-> n, depth |-> depth],
                             calculate_iterative(n, depth))
        /\ UNCHANGED <<cloud, kdtree, model, inserted, database, precision, hdf5, analyzer, lru_cache>>

NextFibonacci == FibonacciCalculate \/ FibonacciCalculateIterative

SpecFibonacci == Init /\ [][NextFibonacci]_vars

(***************************************************************************)
(* A TerrainModel: model holds its fields, cloud is its points.            *)
(***************************************************************************)
Terrain == [model EXCEPT !.points = cloud]

TerrainStep(op, args, r) ==
    /\ cloud' = r.obj.points
    /\ model' = [r.obj EXCEPT !.points = PointCloud_init]
    /\ result' = Outcome(op, args, r)
    /\ inserted' = IF op = "add_point" /\ r.raised = "None" THEN inserted \cup {args} ELSE inserted
    /\ UNCHANGED <<kdtree, database, precision, hdf5, analyzer, lru_cache>>

ModelAddPoint ==
    \E p \in PointPool :
        LET r == TerrainModel_add_point(Terrain, p)
        IN Fits(r.obj.points) /\ TerrainStep("add_point", p, r)

\* Id lists handed to add_break_line.
BreakLineIds == { <<0, 1>>, <<0, 9>>, <<5, 5>>, <<0, 1, 5>> }

\* Break lines are appended: the list is grown to MaxBreakLines at most.
MaxBreakLines == 1

ModelAddBreakLine ==
    \E ids \in BreakLineIds :
        LET r == add_break_line(Terrain, ids)
        IN Len(r.obj._break_lines) <= MaxBreakLines /\ TerrainStep("add_break_line", ids, r)

\* (x, y) places asked of the planar search.
NearestXY == { <<1, 1>>, <<5, 5>> }

ModelGetNearestPoints ==
    \E q \in NearestXY, k \in 1..MaxK :
        \E r \in get_nearest_points(Terrain, q[1], q[2], k) :
            TerrainStep("get_nearest_points", <<q, k>>, r)

ModelInterpolateElevation ==
    \E q \in QueryXY :
        \E r \in interpolate_elevation(Terrain, q[1], q[2]) :
            TerrainStep("interpolate_elevation", q, r)

ModelComputeSurfaceMetrics ==
    \E r \in compute_surface_metrics(Terrain) :
        TerrainStep("compute_surface_metrics", <<>>, r)

ModelGetStats ==
    \E r \in get_stats(Terrain) : TerrainStep("get_stats", <<>>, r)

\* The statistics of a terrain, next to its interpolation.
NextStatistics ==
    \/ ModelAddPoint
    \/ ModelComputeSurfaceMetrics
    \/ ModelGetStats
    \/ ModelInterpolateElevation

SpecStatistics == Init /\ [][NextStatistics]_vars

NextModel ==
    ModelAddPoint \/ ModelAddBreakLine \/ ModelGetNearestPoints \/ ModelInterpolateElevation

SpecModel == Init /\ [][NextModel]_vars

\* Both interpolation entry points of one terrain: interpolate_elevation of
\* the TerrainModel and interpolate_z of its PointCloud (terrain.points).
NextInterpolation == ModelAddPoint \/ ModelInterpolateElevation \/ CloudInterpolateZ

SpecInterpolation == Init /\ [][NextInterpolation]_vars

(***************************************************************************)
(* A terrain whose break lines cross its mesh: the TerrainModel and its    *)
(* PointCloud (terrain.points), each with its own break lines.             *)
(***************************************************************************)
\* Four points in convex position; the Delaunay mesh has the diagonal
\* from id 1 to id 2, which the line from id 0 to id 3 crosses at (2, 2).
CrossPool == { Pt(0, 0, 0, 0), Pt(1, 4, 0, 2), Pt(2, 0, 4, 3), Pt(3, 6, 6, 5) }

CrossLines == { <<0, 3>>, <<1, 2>> }

\* On both diagonals, on one of them, and outside the mesh.
CrossQueryXY == { <<2, 2>>, <<3, 3>>, <<7, 1>> }

CrossAddPoint ==
    \E p \in CrossPool :
        LET r == TerrainModel_add_point(Terrain, p)
        IN /\ PointCloud_len(r.obj.points) <= MaxVertexPoints
           /\ TerrainStep("add_point", p, r)

CrossBreakLines ==
    \E lines \in {<<>>} \cup { <<line>> : line \in CrossLines } :
        LET r == break_lines(cloud, lines)
        IN /\ cloud' = r.obj
           /\ result' = Outcome("break_lines", lines, r)
           /\ UNCHANGED <<kdtree, model, inserted, database, precision, hdf5, analyzer, lru_cache>>

CrossAddBreakLine ==
    \E ids \in CrossLines :
        LET r == add_break_line(Terrain, ids)
        IN Len(r.obj._break_lines) <= MaxBreakLines /\ TerrainStep("add_break_line", ids, r)

CrossInterpolateZ ==
    \E q \in CrossQueryXY :
        \E r \in interpolate_z(cloud, q[1], q[2], "barycentric") :
            /\ cloud' = r.obj
            /\ result' = Outcome("interpolate_z", <<q[1], q[2], "barycentric">>, r)
            /\ UNCHANGED <<kdtree, model, inserted, database, precision, hdf5, analyzer, lru_cache>>

CrossInterpolateElevation ==
    \E q \in CrossQueryXY :
        \E r \in interpolate_elevation(Terrain, q[1], q[2]) :
            TerrainStep("interpolate_elevation", q, r)

NextBreakLine ==
    \/ CrossAddPoint
    \/ CrossBreakLines
    \/ CrossAddBreakLine
    \/ CrossInterpolateZ
    \/ CrossInterpolateElevation

SpecBreakLine == Init /\ [][NextBreakLine]_vars

(***************************************************************************)
(* The statistics of a terrain below zero.                                 *)
(***************************************************************************)
\* Three points of elevation -1 and one lower.
VolumePool == { Pt(0, 0, 0, -1), Pt(1, 4, 0, -1), Pt(2, 0, 4, -1), Pt(3, 4, 4, -4) }

VolumeAddPoint ==
    \E p \in VolumePool :
        LET r == TerrainModel_add_point(Terrain, p)
        IN Fits(r.obj.points) /\ TerrainStep("add_point", p, r)

NextVolume == VolumeAddPoint \/ ModelComputeSurfaceMetrics \/ ModelGetStats

SpecVolume == Init /\ [][NextVolume]_vars

(***************************************************************************)
(* The queries of one store: the PointCloud is the points of a             *)
(* TerrainModel or the point_cloud of a TerrainManager, filled by its      *)
(* owner and asked through every query of both.                            *)
(***************************************************************************)
\* No TerrainManager has indexed the store: the TerrainModel owns it.
OwnedByModel == kdtree = None

\* No TerrainModel has been used: the TerrainManager owns the store.
OwnedByManager == model = TerrainModel_init

\* The points stored: a triangle; (1, 1) is inside it and (5, 5) outside.
QueryPool == { Pt(0, 0, 0, 0), Pt(1, 4, 0, 2), Pt(2, 0, 4, 3) }

QueriedXY == { <<1, 1>>, <<5, 5>> }

\* Break lines declared: between stored ids, and to an unknown id.
QueryLines == { <<<<0, 1>>>>, <<<<0, 9>>>> }

QueryModelAddPoint ==
    /\ OwnedByModel
    /\ \E p \in QueryPool :
          LET r == TerrainModel_add_point(Terrain, p)
          IN Fits(r.obj.points) /\ TerrainStep("add_point", p, r)

QueryModelAddBreakLine ==
    /\ OwnedByModel
    /\ LET r == add_break_line(Terrain, <<0, 1>>)
       IN /\ Len(r.obj._break_lines) <= MaxBreakLines
          /\ TerrainStep("add_break_line", <<0, 1>>, r)

QueryModelGetNearestPoints ==
    /\ OwnedByModel
    /\ \E q \in QueriedXY, k \in 1..MaxK :
          \E r \in get_nearest_points(Terrain, q[1], q[2], k) :
              TerrainStep("get_nearest_points", <<q, k>>, r)

QueryModelInterpolateElevation ==
    /\ OwnedByModel
    /\ \E q \in QueriedXY :
          \E r \in interpolate_elevation(Terrain, q[1], q[2]) :
              TerrainStep("interpolate_elevation", q, r)

QueryModelComputeSurfaceMetrics == OwnedByModel /\ ModelComputeSurfaceMetrics

QueryModelGetStats == OwnedByModel /\ ModelGetStats

QueryManagerAddPoints ==
    /\ OwnedByManager
    /\ \E p \in QueryPool :
          LET r == add_points(Manager, <<p>>)
          IN /\ Fits(r.obj.point_cloud)
             /\ cloud' = r.obj.point_cloud
             /\ kdtree' = r.obj.kdtree
             /\ result' = Outcome("add_points", <<p>>, r)
             /\ inserted' = IF r.raised = "None" THEN inserted \cup {p} ELSE inserted
             /\ UNCHANGED <<model, database, precision, hdf5, analyzer, lru_cache>>

QueryManagerFindNearestNeighbors == OwnedByManager /\ ManagerFindNearestNeighbors

QueryManagerFindPointsInRadius == OwnedByManager /\ ManagerFindPointsInRadius

QueryBreakLines ==
    \E lines \in QueryLines :
        LET r == break_lines(cloud, lines)
        IN /\ cloud' = r.obj
           /\ result' = Outcome("break_lines", lines, r)
           /\ UNCHANGED <<kdtree, model, inserted, database, precision, hdf5, analyzer, lru_cache>>

QueryInterpolateZ ==
    \E q \in QueriedXY, method \in Methods :
        \E r \in interpolate_z(cloud, q[1], q[2], method) :
            /\ cloud' = r.obj
            /\ result' = Outcome("interpolate_z", <<q[1], q[2], method>>, r)
            /\ UNCHANGED <<kdtree, model, inserted, database, precision, hdf5, analyzer, lru_cache>>

NextQuery ==
    \/ QueryModelAddPoint
    \/ QueryModelAddBreakLine
    \/ QueryModelGetNearestPoints
    \/ QueryModelInterpolateElevation
    \/ QueryModelComputeSurfaceMetrics
    \/ QueryModelGetStats
    \/ QueryManagerAddPoints
    \/ QueryManagerFindNearestNeighbors
    \/ QueryManagerFindPointsInRadius
    \/ QueryBreakLines
    \/ QueryInterpolateZ

SpecQuery == Init /\ [][NextQuery]_vars

(***************************************************************************)
(* A Database that saves and loads the terrain.                            *)
(***************************************************************************)
\* The points of the terrains saved.
SavedPool == { Pt(0, 0, 0, 0), Pt(5, 2, 2, 1), Pt(1, 4, 0, 2) }

\* Terrain names: one to save under, the empty name, one never saved.
Names == { "site", "", "unknown" }

SavedAddPoint ==
    \E p \in SavedPool :
        LET r == TerrainModel_add_point(Terrain, p)
        IN Fits(r.obj.points) /\ TerrainStep("add_point", p, r)

DatabaseSaveTerrain ==
    \E name \in Names \ {"unknown"} :
        \E r \in save_terrain(database, Terrain, name) :
            /\ database' = r.obj.db
            /\ cloud' = r.obj.terrain.points
            /\ model' = [r.obj.terrain EXCEPT !.points = PointCloud_init]
            /\ result' = Outcome("save_terrain", name, r)
            /\ UNCHANGED <<kdtree, inserted, precision, hdf5, analyzer, lru_cache>>

DatabaseLoadTerrain ==
    \E name \in Names :
        LET r == load_terrain(database, name)
        IN /\ database' = r.obj
           /\ result' = Outcome("load_terrain", name, r)
           /\ UNCHANGED <<cloud, kdtree, model, inserted, precision, hdf5, analyzer, lru_cache>>

NextDatabase == SavedAddPoint \/ DatabaseSaveTerrain \/ DatabaseLoadTerrain

SpecDatabase == Init /\ [][NextDatabase]_vars

(***************************************************************************)
(* A Database whose cache overflows: terrains saved under more names than  *)
(* the cache holds, and deleted.                                           *)
(***************************************************************************)
\* The names terrains are saved under, one more than _max_cache_size.
CacheNames == <<"t1", "t2", "t3", "t4", "t5", "t6">>

\* The names saved: those on file, the first name free, and the empty name.
SavedNames ==
    { CacheNames[i] : i \in { j \in 1..Len(CacheNames) :
          \/ DictHas(database.files, CacheNames[j])
          \/ \A h \in 1..(j - 1) : DictHas(database.files, CacheNames[h]) } } \cup {""}

CacheSaveTerrain ==
    \E name \in SavedNames :
        \E r \in save_terrain(database, Terrain, name) :
            /\ database' = r.obj.db
            /\ cloud' = r.obj.terrain.points
            /\ model' = [r.obj.terrain EXCEPT !.points = PointCloud_init]
            /\ result' = Outcome("save_terrain", name, r)
            /\ UNCHANGED <<kdtree, inserted, precision, hdf5, analyzer, lru_cache>>

\* The names deleted: the first one saved, one saved later, and one that
\* no terrain is saved under.
DeletedNames == { "t1", "t4", "unknown" }

CacheDeleteTerrain ==
    \E name \in DeletedNames :
        LET r == delete_terrain(database, name)
        IN /\ database' = r.obj
           /\ result' = Outcome("delete_terrain", name, r)
           /\ UNCHANGED <<cloud, kdtree, model, inserted, precision, hdf5, analyzer, lru_cache>>

NextCache == CacheSaveTerrain \/ CacheDeleteTerrain

SpecCache == Init /\ [][NextCache]_vars

(***************************************************************************)
(* Point3D construction (point3d.py): the arguments are Python values,     *)
(* described by their type, by whether they are negative and whether they  *)
(* are finite.                                                             *)
(***************************************************************************)
PyValue(type, text, negative, finite) ==
    [type |-> type, text |-> text, negative |-> negative, finite |-> finite]

IdValues ==
    { PyValue("int", "0", FALSE, TRUE), PyValue("int", "1", FALSE, TRUE),
      PyValue("int", "-1", TRUE, TRUE), PyValue("float", "1.5", FALSE, TRUE) }

Zero == PyValue("int", "0", FALSE, TRUE)

XValues ==
    { Zero, PyValue("float", "0.5", FALSE, TRUE), PyValue("float", "nan", FALSE, FALSE),
      PyValue("float", "inf", FALSE, FALSE), PyValue("float", "-inf", TRUE, FALSE),
      PyValue("str", "'1.0'", FALSE, TRUE) }

YValues == { Zero, PyValue("float", "nan", FALSE, FALSE), PyValue("NoneType", "None", FALSE, TRUE) }

ZValues == { Zero, PyValue("float", "-inf", TRUE, FALSE) }

\* (x, y, z) with at most one coordinate other than 0.
CoordinateTriples ==
    { <<x, Zero, Zero>> : x \in XValues } \cup { <<Zero, y, Zero>> : y \in YValues }
        \cup { <<Zero, Zero, z>> : z \in ZValues }

\* isinstance(v, int) and isinstance(v, (int, float)).
IsInt(v) == v.type = "int"

IsNumeric(v) == v.type \in {"int", "float"}

\* Point3D(id, x, y, z): the dataclass constructor with __post_init__.
Point3D(id, x, y, z) ==
    IF ~IsInt(id) \/ id.negative
    THEN Raised(<<>>, "ValueError(id)")
    ELSE IF ~(IsNumeric(x) /\ IsNumeric(y) /\ IsNumeric(z))
    THEN Raised(<<>>, "ValueError(coordinates)")
    ELSE Returned(<<>>, Pt(id, x, y, z))

ConstructPoint ==
    \E id \in IdValues, c \in CoordinateTriples :
        /\ result' = Outcome("Point3D", <<id, c[1], c[2], c[3]>>, Point3D(id, c[1], c[2], c[3]))
        /\ UNCHANGED <<cloud, kdtree, model, inserted, database, precision, hdf5, analyzer, lru_cache>>

\* Largest store of constructed points.
MaxConstructed == 1

\* add_point of the point just constructed.
AddConstructedPoint ==
    /\ result.op = "Point3D"
    /\ result.raised = "None"
    /\ LET r == add_point(cloud, result.value)
       IN /\ PointCloud_len(r.obj) <= MaxConstructed
          /\ cloud' = r.obj
          /\ result' = Outcome("add_point", result.value, r)
    /\ UNCHANGED <<kdtree, model, inserted, database, precision, hdf5, analyzer, lru_cache>>

NextPoint == ConstructPoint \/ AddConstructedPoint

SpecPoint == Init /\ [][NextPoint]_vars

(***************************************************************************)
(* Properties.                                                             *)
(***************************************************************************)
Count(seq, v) == Cardinality({ i \in 1..Len(seq) : seq[i] = v })

\* The two sequences hold the same values the same number of times.
SameRows(a, b) ==
    /\ Len(a) = Len(b)
    /\ \A i \in 1..Len(a) : Count(a, a[i]) = Count(b, a[i])

\* The stored points in position order, read from the map and the array.
StoredPoints(pc) ==
    [i \in 1..Len(pc._id_to_index) |->
        Pt(pc._id_to_index[i][1], Row(reshape3(pc._coords), pc._id_to_index[i][2])[1],
           Row(reshape3(pc._coords), pc._id_to_index[i][2])[2],
           Row(reshape3(pc._coords), pc._id_to_index[i][2])[3])]

XYZ(p) == <<p.x, p.y, p.z>>

\* C1: the id-to-position map is a bijection from the stored ids onto
\* [0, count), every id is there once, and the coordinate array holds
\* exactly 3 * count values, after any successful and rejected add_point.
C1_PositionMapBijection ==
    LET d == cloud._id_to_index
        n == Len(d)
    IN /\ \A i, j \in 1..n : i # j => d[i][1] # d[j][1]
       /\ { d[i][2] : i \in 1..n } = 0..(n - 1)
       /\ Len(cloud._coords) = 3 * n
       /\ \A p \in inserted : DictHas(d, p.id)

C1_Witness ==
    /\ result.op = "add_point"
    /\ result.raised = "ValueError(duplicate id)"
    /\ Len(cloud._id_to_index) >= 2

\* C2: add_point of an id already stored raises the duplicate-id error and
\* leaves the count, the map and the stored coordinates as they were.
C2_DuplicateRejected ==
    [][ (result'.op = "add_point" /\ DictHas(cloud._id_to_index, result'.args.id))
          => /\ result'.raised = "ValueError(duplicate id)"
             /\ cloud'._id_to_index = cloud._id_to_index
             /\ cloud'._coords = cloud._coords
             /\ get_point(cloud', result'.args.id).value
                   = get_point(cloud, result'.args.id).value ]_vars

\* A rejected point whose coordinates differ from the stored ones.
C2_Witness ==
    /\ result.op = "add_point"
    /\ result.raised = "ValueError(duplicate id)"
    /\ get_point(cloud, result.args.id).value # result.args

\* C3: get_point of an id whose insertion succeeded returns the x, y and
\* z inserted under it, whatever was added or rejected afterwards.
C3_GetReturnsInserted ==
    (result.op = "get_point" /\ \E p \in inserted : p.id = result.args)
        => /\ result.raised = "None"
           /\ result.value \in inserted
           /\ result.value.id = result.args

\* The first of three stored points is read back.
C3_Witness ==
    /\ result.op = "get_point"
    /\ result.raised = "None"
    /\ Len(cloud._id_to_index) = 3
    /\ DictGet(cloud._id_to_index, result.args) = 0

\* C4: a rejected add_points batch leaves the store and the spatial index
\* exactly as before the call.
C4_BatchAtomic ==
    [][ (result'.op = "add_points" /\ result'.raised = "ValueError(duplicate id)")
          => /\ cloud'._id_to_index = cloud._id_to_index
             /\ cloud'._coords = cloud._coords
             /\ kdtree' = kdtree ]_vars

\* C5: every nearest or radius query is answered from an index over
\* exactly the points in the store at the time of the query.
C5_IndexNeverStale ==
    result.op \in {"find_nearest_neighbors", "find_points_in_radius"}
        => SameRows(kdtree.points, get_points_array(cloud))

IsInterpolation ==
    \/ result.op = "interpolate_elevation"
    \/ result.op = "interpolate_z" /\ result.args[3] \in {"barycentric", "diw"}

IsNearestRanking(value, q, n) ==
    LET stored == StoredPoints(cloud)
        d(p) == Dist2(XYZ(p), q)
    IN /\ Len(value) = n
       /\ \A i \in 1..n : Count(stored, value[i]) >= 1
       /\ \A i, j \in 1..n : i < j => value[i].id # value[j].id /\ d(value[i]) <= d(value[j])
       /\ \A i \in 1..n : \A j \in 1..Len(stored) :
             (\A h \in 1..n : value[h].id # stored[j].id) => d(value[i]) <= d(stored[j])

\* C8: a nearest-neighbour query with k >= 1 returns min(k, count) points
\* without error.
C8_NearestCount ==
    result.op = "find_nearest_neighbors"
        => /\ result.raised = "None"
           /\ Len(result.value) = Min(result.args[2], PointCloud_len(cloud))

\* C9: whatever the ids, the nearest-neighbour query returns the stored
\* points a brute-force scan ranks closest, in ascending distance.
C9_NearestIsBruteForce ==
    result.op = "find_nearest_neighbors"
        => /\ result.raised = "None"
           /\ IsNearestRanking(result.value, result.args[1],
                               Min(result.args[2], PointCloud_len(cloud)))

\* C10: a radius query returns exactly the stored points within the
\* radius, in ascending distance from the centre.
C10_RadiusExactAndOrdered ==
    result.op = "find_points_in_radius"
        => LET stored == StoredPoints(cloud)
               within == { i \in 1..Len(stored) :
                             Dist2(XYZ(stored[i]), result.args[1])
                                <= result.args[2] * result.args[2] }
           IN /\ result.raised = "None"
              /\ IsNearestRanking(result.value, result.args[1], Cardinality(within))

\* The pairs of a break-line list that name an id the store does not hold,
\* and those that name one stored id twice.
UnknownPairs(pc, lines) ==
    { i \in 1..Len(lines) : \/ ~DictHas(pc._id_to_index, lines[i][1])
                            \/ ~DictHas(pc._id_to_index, lines[i][2]) }

SelfPairs(pc, lines) ==
    { i \in 1..Len(lines) : /\ i \notin UnknownPairs(pc, lines)
                            /\ lines[i][1] = lines[i][2] }

\* C11: break_lines rejects the whole list when a pair names an unknown
\* id (not-found error) or one id twice (validation error), and then
\* leaves the declared break lines and the cached triangulation unchanged.
C11_BreakLinesRejectWhole ==
    [][ (result'.op = "break_lines"
           /\ UnknownPairs(cloud, result'.args) \cup SelfPairs(cloud, result'.args) # {})
          => /\ result'.raised \in {"KeyError", "ValueError(break line to itself)"}
             /\ SelfPairs(cloud, result'.args) = {} => result'.raised = "KeyError"
             /\ UnknownPairs(cloud, result'.args) = {}
                   => result'.raised = "ValueError(break line to itself)"
             /\ cloud'._break_lines = cloud._break_lines
             /\ cloud'._triangulation = cloud._triangulation ]_vars

\* A list whose second pair is bad, rejected while break lines are
\* declared and a mesh is cached.
C11_Witness ==
    /\ result.op = "break_lines"
    /\ result.raised = "ValueError(break line to itself)"
    /\ Len(result.args) = 2
    /\ Len(cloud._break_lines) > 0
    /\ cloud._triangulation.built

\* C12: every break line a TerrainModel holds is a pair of two distinct
\* ids of stored points; add_break_line rejects everything else.
C12_BreakLinesArePairs ==
    \A i \in 1..Len(model._break_lines) :
        LET line == model._break_lines[i]
        IN /\ Len(line) = 2
           /\ line[1] # line[2]
           /\ \A j \in 1..Len(line) : DictHas(cloud._id_to_index, line[j])

\* The stored points at the (x, y) of the last interpolate_z call.
AskedVertices ==
    { i \in 1..Len(cloud._id_to_index) :
        /\ StoredPoints(cloud)[i].x = result.args[1]
        /\ StoredPoints(cloud)[i].y = result.args[2] }

\* The store can be triangulated, and no two points share their (x, y).
Triangulable(pc) == Delaunay(xy_columns(reshape3(pc._coords))) # {}

DistinctXY(pc) ==
    \A i, j \in 1..Len(pc._id_to_index) :
        i # j => xy_columns(reshape3(pc._coords))[i] # xy_columns(reshape3(pc._coords))[j]

\* The squared distance from (x, y) to the segment p1-p2, as a fraction.
SegmentDist2(x, y, p1, p2) ==
    LET dx == p2.x - p1.x
        dy == p2.y - p1.y
        line_len_sq == dx * dx + dy * dy
        dot == (x - p1.x) * dx + (y - p1.y) * dy
        cross == (x - p1.x) * dy - (y - p1.y) * dx
    IN IF dot <= 0 THEN <<(x - p1.x) * (x - p1.x) + (y - p1.y) * (y - p1.y), 1>>
       ELSE IF dot >= line_len_sq
       THEN <<(x - p2.x) * (x - p2.x) + (y - p2.y) * (y - p2.y), 1>>
       ELSE <<cross * cross, line_len_sq>>

\* The declared break lines whose segment passes within 0.1 of (x, y).
SegmentsNear(pc, x, y) ==
    { i \in 1..Len(pc._break_lines) :
        LET d == SegmentDist2(x, y, get_point(pc, pc._break_lines[i][1]).value,
                              get_point(pc, pc._break_lines[i][2]).value)
        IN 100 * d[1] < d[2] }

\* C13: interpolation at the (x, y) of a stored point p returns p.z under
\* both methods, whatever break lines are declared; stated for the
\* stores that can be triangulated and have pairwise distinct (x, y),
\* and the points no declared break line comes within 0.1 of.
C13_VertexExact ==
    (result.op = "interpolate_z" /\ IsInterpolation /\ Triangulable(cloud) /\ DistinctXY(cloud))
        => \A i \in AskedVertices :
              SegmentsNear(cloud, result.args[1], result.args[2]) = {}
                 => /\ result.raised = "None"
                    /\ result.value = Frac(StoredPoints(cloud)[i].z, 1)

\* The last call was a barycentric interpolation over a mesh none of
\* whose triangles contains the query point.
OutsidePointCloudMesh ==
    /\ result.op = "interpolate_z"
    /\ result.args[3] = "barycentric"
    /\ cloud._triangulation.built
    /\ find_simplex(cloud._triangulation, <<result.args[1], result.args[2]>>) = {}

OutsideTerrainModelMesh ==
    /\ result.op = "interpolate_elevation"
    /\ model._triangulation.built
    /\ find_simplex(model._triangulation, result.args) = {}

C15_FallbackSucceeds ==
    [][ ( /\ result.op = "interpolate_z"
          /\ result.raised = "ValueError(outside boundary)"
          /\ result'.op = "interpolate_z"
          /\ result'.args = <<result.args[1], result.args[2], "diw">> )
          => /\ result'.raised = "None"
             /\ Len(result'.value) = 2
             /\ result'.value[2] > 0 ]_vars

\* Inverse-distance interpolation returned a value at a point that lies
\* in no triangle of the cached mesh.
C15_Witness ==
    /\ result.op = "interpolate_z"
    /\ result.args[3] = "diw"
    /\ result.raised = "None"
    /\ Len(result.value) = 2
    /\ Len(cloud._break_lines) > 0
    /\ cloud._triangulation.built
    /\ find_simplex(cloud._triangulation, <<result.args[1], result.args[2]>>) = {}

\* C16: with fewer than 3 points, computing or reading the statistics
\* never fails and leaves the four metrics zero and the slope map empty;
\* the record read from the empty terrain has zero bounds as well.
C16_SmallTerrainStatsZero ==
    (result.op \in {"compute_surface_metrics", "get_stats"} /\ PointCloud_len(cloud) < 3)
        => /\ result.raised = "None"
           /\ model._stats.triangles = {}
           /\ model._stats.slopes = {}
           /\ (result.op = "get_stats" /\ PointCloud_len(cloud) = 0)
                 => /\ result.value.point_count = 0
                    /\ result.value.bounds = ZeroBounds

\* C17: on a store of 3 or more points that are all collinear in (x, y),
\* interpolation and statistics fail with the triangulation's error; no
\* mesh is kept and no result is returned.
C17_CollinearFailsEverywhere ==
    ( /\ PointCloud_len(cloud) >= 3
      /\ ~Triangulable(cloud)
      /\ result.op \in {"interpolate_elevation", "compute_surface_metrics", "get_stats"} )
        => /\ result.raised = "QhullError"
           /\ ~model._triangulation.built

\* C18: Point3D construction fails with a validation error for an id that
\* is negative or not an integer and for a coordinate that is not numeric
\* or not finite, so that no stored coordinate is ever non-finite.
C18_PointValidated ==
    /\ result.op = "Point3D"
          => LET bad_id == ~IsInt(result.args[1]) \/ result.args[1].negative
                 bad_coordinate ==
                    \E i \in 2..4 : ~IsNumeric(result.args[i]) \/ ~result.args[i].finite
             IN (bad_id \/ bad_coordinate) <=> (result.raised # "None")
    /\ \A i \in 1..Len(cloud._coords) : cloud._coords[i].finite

\* C19: load_terrain of a name saved with at least one point returns a
\* terrain with the saved ids, in the saved position order, and the saved
\* coordinates.
C19_SaveLoadRoundTrip ==
    ( /\ result.op = "load_terrain"
      /\ DictHas(database.files, result.args)
      /\ DictGet(database.files, result.args).num_points >= 1 )
        => LET file == DictGet(database.files, result.args)
           IN /\ Len(result.value) = 1
              /\ DictKeys(result.value[1].points._id_to_index) = file.point_ids
              /\ \A i \in 1..file.num_points :
                    result.value[1].points._id_to_index[i][2] = i - 1
              /\ get_points_array(result.value[1].points) = file.points_array

\* No coordinate of the manager's points leaves the 32-bit cell.
NoWrapAround(tm) ==
    \A i \in 1..Len(tm.point_cloud._coords) : FitsInt32(tm, tm.point_cloud._coords[i])

\* The float b is within half the precision of the coordinate a.
WithinHalfPrecision(tm, a, b) ==
    LET diff == Abs(a * b[2] - b[1])
    IN diff = 0 \/ diff <= (tm.precision[1] * b[2]) \div (2 * tm.precision[2])

\* The loaded manager holds the ids of tm in the same order and every
\* coordinate within half the precision.
QuantizedCopy(tm, loaded) ==
    /\ loaded.point_cloud._id_to_index = tm.point_cloud._id_to_index
    /\ Len(loaded.point_cloud._coords) = Len(tm.point_cloud._coords)
    /\ \A i \in 1..Len(tm.point_cloud._coords) :
          WithinHalfPrecision(tm, tm.point_cloud._coords[i], loaded.point_cloud._coords[i])

\* C20: for a TerrainManager of any precision and ids whose scaled
\* coordinates fit 32 bits, save_to_hdf5 succeeds and load_from_hdf5 right
\* after it yields the same ids in the same order with every coordinate
\* within half the precision of the original.
C20_QuantizedRoundTrip ==
    [][ /\ (result'.op = "save_to_hdf5" /\ NoWrapAround(Manager))
            => result'.raised = "None"
        /\ ( /\ result.op = "save_to_hdf5"
             /\ result.raised = "None"
             /\ result'.op = "load_from_hdf5"
             /\ NoWrapAround(Manager) )
            => ( /\ result'.raised = "None"
                 /\ QuantizedCopy(Manager, result'.value) ) ]_vars

\* C21: the array a bulk operation computes from equals the current store
\* contents in position order; here the array of the TerrainAnalyzer when
\* calculate_volume uses it.
C21_ArrayIsCurrent ==
    result.op = "calculate_volume"
        => analyzer[1]._points_array = get_points_array(cloud)

\* The component-wise minimum and maximum of the stored coordinates.
BoundsOf(pc) ==
    LET rows == reshape3(pc._coords)
        Least(k) == CHOOSE m \in { rows[i][k] : i \in 1..Len(rows) } :
                        \A i \in 1..Len(rows) : m <= rows[i][k]
        Most(k) == CHOOSE m \in { rows[i][k] : i \in 1..Len(rows) } :
                        \A i \in 1..Len(rows) : m >= rows[i][k]
    IN [ min_x |-> Least(1), max_x |-> Most(1), min_y |-> Least(2), max_y |-> Most(2),
         min_z |-> Least(3), max_z |-> Most(3) ]

\* C22: after any add_point calls of a TerrainModel, rejected ones
\* included, point_count is the number of stored points and the bounds are
\* the component-wise minimum and maximum of the stored coordinates.
C22_CountAndBounds ==
    /\ model._stats.point_count = Len(cloud._id_to_index)
    /\ Len(cloud._id_to_index) > 0 => model._stats.bounds = BoundsOf(cloud)

\* A duplicate id was just rejected by a terrain of two points.
C22_Witness ==
    /\ result.op = "add_point"
    /\ result.raised # "None"
    /\ model._stats.point_count = 2

\* The n-th Fibonacci number, F(0) = 0 and F(1) = 1.
Fib[n \in Nat] == IF n <= 1 THEN n ELSE Fib[n - 1] + Fib[n - 2]

IsFibonacciCall == result.op \in { "calculate", "calculate_iterative" }

ModelLines == [cloud EXCEPT !._break_lines = model._break_lines]

\* The elevation along break line i of pc at the projection of (x, y).
LineValue(pc, i, x, y) ==
    LET p1 == get_point(pc, pc._break_lines[i][1]).value
        p2 == get_point(pc, pc._break_lines[i][2]).value
        t == _project_point_to_line(x, y, p1, p2)
    IN Frac(p1.z * t[2] + t[1] * (p2.z - p1.z), t[2])

\* C24: on both barycentric entry points, a query inside the mesh and
\* within the threshold of a declared break line returns the linear
\* interpolation of that line's endpoint elevations at the projection.
C24_BreakLineFirst ==
    /\ ( /\ result.op = "interpolate_z"
         /\ result.args[3] = "barycentric"
         /\ cloud._triangulation.built
         /\ find_simplex(cloud._triangulation, <<result.args[1], result.args[2]>>) # {} )
          => \/ SegmentsNear(cloud, result.args[1], result.args[2]) = {}
             \/ \E i \in SegmentsNear(cloud, result.args[1], result.args[2]) :
                   /\ result.raised = "None"
                   /\ result.value = LineValue(cloud, i, result.args[1], result.args[2])
    /\ ( /\ result.op = "interpolate_elevation"
         /\ model._triangulation.built
         /\ find_simplex(model._triangulation, result.args) # {} )
          => \/ SegmentsNear(ModelLines, result.args[1], result.args[2]) = {}
             \/ \E i \in SegmentsNear(ModelLines, result.args[1], result.args[2]) :
                   /\ result.raised = "None"
                   /\ result.value = LineValue(ModelLines, i, result.args[1], result.args[2])

\* The segments a-b and c-d cross at a point interior to both.
ProperlyCross(a, b, c, d) ==
    /\ Orient(a, b, c) * Orient(a, b, d) < 0
    /\ Orient(c, d, a) * Orient(c, d, b) < 0

\* The break lines of pc that an edge of the mesh tri properly crosses.
CrossedLines(pc, tri) ==
    { i \in 1..Len(pc._break_lines) :
        \E t \in tri.simplices : \E u, v \in t :
            /\ u < Len(tri.points) /\ v < Len(tri.points)
            /\ ProperlyCross(Row(tri.points, u), Row(tri.points, v),
                             XYZ(get_point(pc, pc._break_lines[i][1]).value),
                             XYZ(get_point(pc, pc._break_lines[i][2]).value)) }

\* C25: the build of the triangulation with break lines declared ends
\* either in a failure or in a mesh none of whose edges properly crosses a
\* declared break line.
C25_NoCrossedBreakLine ==
    cloud._triangulation.built => CrossedLines(cloud, cloud._triangulation) = {}

\* C28: the vertex list of the PointCloud's mesh is the store's (x, y)
\* rows in position order, with no midpoint left, and every vertex index
\* of a triangle is a store position.
C28_MeshVerticesAreStore ==
    cloud._triangulation.built
        => /\ cloud._triangulation.points = xy_columns(reshape3(cloud._coords))
           /\ \A t \in cloud._triangulation.simplices :
                 \A v \in t : v >= 0 /\ v < Len(cloud._id_to_index)

\* A mesh built through splits: a declared break line intersects one of
\* its triangles.
C28_Witness ==
    /\ cloud._triangulation.built
    /\ Len(cloud._triangulation.break_lines) > 0
    /\ Len(SplitsOf(cloud, cloud._triangulation)) > 0

\* The interpolation of (x, y) over the mesh alone: the values of the
\* triangles that contain it, no break line consulted.
MeshValues(pc, x, y) ==
    { r.value : r \in interpolate_barycentric([pc EXCEPT !._break_lines = <<>>], x, y) }

\* The projection of (x, y) onto the line through p1 and p2 falls within
\* the segment: the parameter, before any clamping, lies in [0, 1].
ProjectionWithin(x, y, p1, p2) ==
    LET dx == p2.x - p1.x
        dy == p2.y - p1.y
        dot == (x - p1.x) * dx + (y - p1.y) * dy
    IN dot >= 0 /\ dot <= dx * dx + dy * dy

\* The last call was a barycentric interpolate_z inside the mesh whose
\* nearest break line is met only by its extension beyond an endpoint.
BeyondEndpoint ==
    /\ result.op = "interpolate_z"
    /\ result.args[3] = "barycentric"
    /\ cloud._triangulation.built
    /\ find_simplex(cloud._triangulation, <<result.args[1], result.args[2]>>) # {}
    /\ Len(cloud._break_lines) > 0
    /\ LET near == nearest_line(cloud, result.args[1], result.args[2])
       IN ~ProjectionWithin(result.args[1], result.args[2], near.p1, near.p2)

\* C29: the break-line short-circuit is taken only when the projection
\* onto the nearest break line falls within the segment; a query whose
\* projection falls beyond an endpoint gets the barycentric value of the
\* mesh.
C29_OnlyWithinSegment ==
    BeyondEndpoint
        => /\ result.raised = "None"
           /\ result.value \in MeshValues(cloud, result.args[1], result.args[2])

\* What the store holds: the id-to-position map, the coordinates and the
\* declared break lines.
Store(pc) ==
    [_id_to_index |-> pc._id_to_index, _coords |-> pc._coords,
     _break_lines |-> pc._break_lines]

\* The operations that only ask.
Queries ==
    { "interpolate_z", "interpolate_elevation", "get_nearest_points",
      "find_nearest_neighbors", "find_points_in_radius",
      "compute_surface_metrics", "get_stats" }

\* C27: no query changes the store: the point count, the id-to-position
\* map, the coordinates and the declared break lines (of the PointCloud
\* and of the TerrainModel) are the same after an interpolation by any
\* method, a nearest or radius search or a statistics call as before it,
\* whether the call returns or fails.
C27_QueriesKeepStore ==
    [][ result'.op \in Queries
          => /\ Store(cloud') = Store(cloud)
             /\ PointCloud_len(cloud') = PointCloud_len(cloud)
             /\ model'._break_lines = model._break_lines ]_vars

\* A query that failed over a store with points and a break line, having
\* built a derived cache.
C27_Witness ==
    /\ result.op \in Queries
    /\ result.raised # "None"
    /\ PointCloud_len(cloud) >= 3
    /\ Len(cloud._break_lines) > 0
    /\ cloud._triangulation.built

\* The cache after name is saved into the cache before: a cached name
\* keeps its place, a new one goes last and, the cache being full, the
\* first one leaves.
AfterSave(before, name) ==
    IF DictHas(before, name) THEN DictKeys(before)
    ELSE IF Len(before) = _max_cache_size THEN Append(Tail(DictKeys(before)), name)
    ELSE Append(DictKeys(before), name)

\* C30: after every save_terrain that returns and every delete_terrain,
\* in any order, the cache holds at most 5 terrains, holds the terrain
\* just saved and no deleted name; the terrain evicted is the one first
\* inserted, and saving a cached name again leaves it in its place.
C30_CacheHoldsNewest ==
    [][ LET before == database._terrain_cache
            after == database'._terrain_cache
            name == result'.args
        IN /\ Len(after) <= _max_cache_size
           /\ \A i \in 1..Len(after) : DictHas(database'.files, after[i][1])
           /\ (result'.op = "save_terrain" /\ result'.raised = "None")
                 => /\ DictHas(after, name)
                    /\ DictGet(after, name) = name
                    /\ DictKeys(after) = AfterSave(before, name)
           /\ result'.op = "delete_terrain"
                 => /\ ~DictHas(after, name)
                    /\ after = DictPop(before, name) ]_vars

\* A save that evicted: more terrains are on file than the cache holds,
\* and the one just saved is the newest of a full cache.
C30_Witness ==
    /\ result.op = "save_terrain"
    /\ result.raised = "None"
    /\ Len(database.files) > _max_cache_size
    /\ Len(database._terrain_cache) = _max_cache_size
    /\ database._terrain_cache[_max_cache_size][1] = result.args

\* Six times the volume above base: over the mesh triangles, the
\* projected (x, y) area times the mean vertex elevation above base.
PrismVolume(stats, base) ==
    SumTerms(stats.triangles,
             [t \in stats.triangles |-> Abs(t.normal[3]) * (t.z_sum - 3 * base)])

\* C26: the volume statistic is the sum over the mesh triangles of the
\* projected area times the mean vertex elevation above the base, the
\* minimum z of all points; so it is never negative.
C26_VolumeAboveBase ==
    (result.op \in {"compute_surface_metrics", "get_stats"} /\ model._stats.triangles # {})
        => LET claimed == PrismVolume(model._stats, MinZ(reshape3(cloud._coords)))
           IN /\ volume_low(model._stats) <= claimed
              /\ claimed <= volume_high(model._stats)
              /\ volume_high(model._stats) >= 0

====
